---- MODULE Spec2Model ----
(***************************************************************************)
(* Streamer-data aggregation core of fioletowy-orlik-nodejs.               *)
(*                                                                         *)
(* The repository holds several generations of the same service.  The      *)
(* variable `variant` records which class is instantiated:                 *)
(*   "perIdentity"  src/src/services/TwitchServices.ts (TwitchService with *)
(*                  makeRequest / getMultipleStreamersInfo)                *)
(*   "bulk"         src/unnamed/part_004, lines 15-156 (TwitchService with *)
(*                  getStreamersInfo, 100 identities per request)          *)
(*   "cached"       src/unnamed/part_004, lines 163-265 (the same with a   *)
(*                  NodeCache for the token and the result)                *)
(*   "kick"         src/unnamed/part_006, lines 10-97 (KickService)        *)
(* One behaviour of the model is one service instance serving fetch calls  *)
(* one after the other; every await of the code is a step boundary, the    *)
(* code between two awaits is one atomic step (JavaScript runs to          *)
(* completion).                                                            *)
(***************************************************************************)
EXTENDS Integers, Sequences, FiniteSets, TLC

(***************************************************************************)
(* Bounds of the model.                                                    *)
(***************************************************************************)
MaxLen == 4          \* longest identity list handed to getMultipleStreamersInfo
MaxShort == 2        \* bulk services: longest list well below one batch
MaxOver == 1         \* bulk services: identities beyond one full batch
MaxKickLen == 2      \* longest identity list handed to KickService
MaxCalls == 2        \* fetch calls one bulk or Kick service instance serves
MaxFaults == 3       \* upstream failures (non-2xx, network, token) per behaviour
MaxAbsent == 1       \* logins of the roster that do not exist upstream
MaxTimedLen == 1     \* longest identity list served with network latency
MaxElapsed == 10000  \* network latency adds up to at most this many ms
MaxUsers == 2        \* most user profiles in a users response handed to the merge
MaxWide == 2         \* calculateStatistics: longest list of arbitrary records
MaxGames == 3        \* calculateStatistics: longest list differing in viewers and games
MaxLong == 7         \* calculateStatistics: longest list differing in view counts

(***************************************************************************)
(* Program constants.                                                      *)
(***************************************************************************)
batchSize == 3               \* TwitchServices.ts:288
maxRetriesPlusOne == 3 + 1   \* a retry bound that is off by one
maxRetries == 3              \* TwitchServices.ts:113
SafetyBufferMs == 300000     \* TwitchServices.ts:42, :68
FallbackWaitMs == 60000      \* TwitchServices.ts:143
MinWaitMs == 1000            \* TwitchServices.ts:146
BatchDelayMs == 2000         \* TwitchServices.ts:311
BATCH_SIZE == 100            \* part_004:99, :225
BulkDelayMs == 1000          \* part_004:144
TopCount == 5                \* DatabaseService.ts:157, :313
stdTTL == 60                 \* part_004:173, part_006:16 (seconds)
TokenTtlMargin == 300        \* part_004:197 (seconds)

(***************************************************************************)
(* Environment: clock, identities, upstream answers.                       *)
(***************************************************************************)
Epoch0 == 1000 * 1000             \* Date.now() at construction (ms)
Latency == {0, 5000}              \* ms that pass between two readings of the clock
ShortLife == 600 + 5              \* expires_in (s) of a token that is usable for 5 s
Gaps == {1000, 61000, 306000}     \* ms between two fetch calls of one instance
ExpiresIn == {ShortLife, 3600}    \* expires_in (s) the token endpoint may grant
Null == 0 - 1                     \* null / undefined

Min(a, b) == IF a < b THEN a ELSE b
Max(a, b) == IF a > b THEN a ELSE b

\* String.prototype.toLowerCase on the handles of Identity
toLowerCase(s) == IF s = "B" THEN "b" ELSE IF s = "D" THEN "d" ELSE s

Roster == <<"a", "B", "c", "a", "D", "b">>   \* the identities the roster may hold
Names == {"a", "b", "c", "d"}     \* logins as the upstream spells them
LiveNow == {"a", "c"}             \* logins that are streaming

\* the identity list of length n: the roster, repeated as often as needed
ListOf(n) == [k \in 1..n |-> Roster[((k - 1) % Len(Roster)) + 1]]
ListsUpTo(n) == {ListOf(k) : k \in 0..n}

\* decimal digits of n >= 0, as the upstream writes the Ratelimit-Reset header
RECURSIVE Digits(_)
Digits(n) == IF n < 10 THEN <<n>> ELSE Append(Digits(n \div 10), n % 10)

\* parseInt on a string of decimal digits
RECURSIVE parseInt(_)
parseInt(s) ==
    IF Len(s) = 0 THEN 0
    ELSE parseInt(SubSeq(s, 1, Len(s) - 1)) * 10 + s[Len(s)]

VARIABLES
    variant,         \* which service class this instance is
    now,             \* Date.now() as last read
    accessToken,     \* this.accessToken (Null or the serial of the grant)
    tokenExpiresAt,  \* this.tokenExpiresAt (Null or ms)
    logins,          \* argument of the fetch call
    callPc,          \* "idle" | "spawn" | "await" | "pacing" | "done" | "raised"
    i,               \* loop index of the batch loop (0-based, as in the code)
    next,            \* position whose getStreamerInfo is started next by batch.map
    paceAt,          \* deadline of the inter-batch setTimeout, Null if none
    results,         \* results / allStreamerInfo
    task,            \* per position: the getStreamerInfo call for logins[p]
    exchanges,       \* POSTs sent to the token endpoint
    dataRequests,    \* GETs sent to the data endpoints
    issued,          \* tokens the token endpoint has granted so far
    absent,          \* logins (lower case) that do not exist upstream
    authRejected,    \* the token endpoint answered 400/401 during this call
    mustBeAfter,     \* latest reset time a rate-limited request had to wait for
    faults,          \* upstream failures so far
    victim,          \* position whose requests the failures hit (0: none yet)
    expiresIn,       \* expires_in (s) the token endpoint grants
    calls,           \* fetch calls started on this instance
    cache,           \* this.cache (NodeCache): key -> [value, t]
    bulk,            \* bulk services: headers and the two GETs of the batch
    cuts,            \* the batches the loop has cut so far, in order
    input,           \* argument of a pure function under test (<<>>: none)
    output,          \* what the pure function returned (<<>>: not called)
    streamersTable   \* the rows of the streamers table of the database

vars == <<variant, now, accessToken, tokenExpiresAt, logins, callPc, i, next,
          paceAt, results, task, exchanges, dataRequests, issued, absent,
          authRejected, mustBeAfter, faults, victim, expiresIn, calls, cache,
          bulk, cuts, input, output, streamersTable>>

\* fixed while a service serves its calls
env == <<variant, logins, absent, expiresIn, input, output, streamersTable>>
tokenSlot == <<accessToken, tokenExpiresAt>>
bulkState == <<calls, cache, bulk>>         \* untouched by the per-identity service

Pos == 1..(Max(MaxLen, MaxKickLen) + 1)


\* a getStreamerInfo call that has not started
IdleTask ==
    [pc |-> "idle",        \* "idle" | "tok" | "req" | "sleep" | "done"
     phase |-> "U",        \* "U": getUserByLogin, "S": getStreamByUserLogin
     attempt |-> 0,        \* loop variable of makeRequest
     headers |-> Null,     \* bearer token in the headers built by getAuthHeaders
     gets |-> 0,           \* axios.get calls of the current makeRequest
     tokenPath |-> "none", \* how getAccessToken served the current makeRequest:
                           \* "cached" | "first" (slot empty) | "refresh" (expired)
     wakeAt |-> Null,      \* deadline of the 429 setTimeout
     rejected |-> Null,    \* token that drew the latest 401 of this makeRequest
     reset |-> Null,       \* ms the latest 429 of this makeRequest asked to wait for
     uRes |-> "pending",   \* "found" | "notfound" | "failed"
     sRes |-> "pending",   \* "live" | "offline" | "failed"
     value |-> <<>>]       \* <<>> is null, <<r>> the StreamerInfo r

\* a bulk service between two batches
IdleBulk ==
    [headers |-> Null,     \* bearer token in the headers built by getAuthHeaders
     users |-> "none",     \* GET /users of the batch: "none" | "pending" | "ok"
     streams |-> "none"]   \* GET /streams of the batch

(***************************************************************************)
(* Pure helpers of the per-identity service.                               *)
(***************************************************************************)

\* a slice whose end is inclusive
sliceInclusive(l, begin, end) == SubSeq(l, begin + 1, Min(end + 1, Len(l)))

\* Array.prototype.slice(begin, end) on a list (0-based, end exclusive)
slice(l, begin, end) == SubSeq(l, begin + 1, Min(end, Len(l)))

\* the batch cut by the loop of getMultipleStreamersInfo at loop index k
BatchAt(l, k) == slice(l, k, k + batchSize)

\* Math.ceil(logins.length / batchSize)
totalBatches(l) == (Len(l) + batchSize - 1) \div batchSize

\* positions (1-based) of the identities of the batch at loop index k
BatchPos(l, k) == {k + j : j \in 1..Len(BatchAt(l, k))}

\* a reuse test that subtracts the safety buffer twice from the stored expiry
TokenCachedDoubleBuffer(t) ==
    /\ accessToken # Null
    /\ tokenExpiresAt # Null /\ tokenExpiresAt # 0
    /\ t < tokenExpiresAt - 2 * SafetyBufferMs

\* getAccessToken, line 42: the cached token is still usable
TokenCached(t) ==
    /\ accessToken # Null
    /\ tokenExpiresAt # Null /\ tokenExpiresAt # 0
    /\ t < tokenExpiresAt - SafetyBufferMs

\* an expiry stored without the safety buffer
StoredExpiryNoBuffer(t, expires_in) == t + (expires_in * 1000)

\* getAccessToken, line 68: expiry stored with a token response
StoredExpiry(t, expires_in) == t + (expires_in * 1000) - SafetyBufferMs

\* a wait that takes the header for milliseconds
waitTimeNoScale(t, resetTime) ==
    IF Len(resetTime) > 0 THEN parseInt(resetTime) - t ELSE FallbackWaitMs

\* makeRequest, line 143: how long a 429 asks to wait (header: digits, <<>> if absent)
waitTime(t, resetTime) ==
    IF Len(resetTime) > 0 THEN parseInt(resetTime) * 1000 - t ELSE FallbackWaitMs

\* makeRequest, line 146: delay handed to setTimeout
SleepMs(t, resetTime) == Max(waitTime(t, resetTime), MinWaitMs)

\* getStreamerInfo, lines 246-276: the merged record (stream: the stream object
\* exists): isLive is !!stream, streamDurationMinutes and streamData are set
\* under `if (stream)`
StreamerInfo(login, stream) ==
    [login |-> login,
     isLive |-> stream,
     streamData |-> stream,
     streamDurationMinutes |-> stream]

\* a getStreamerInfo call that has returned v
Done(t, v) ==
    [t EXCEPT !.pc = "done", !.value = v, !.attempt = 0, !.headers = Null,
              !.gets = 0, !.wakeAt = Null, !.rejected = Null, !.reset = Null,
              !.tokenPath = "none"]

\* catch blocks of getUserByLogin (line 193) and getStreamByUserLogin (line 222):
\* whatever makeRequest throws becomes null
PhaseFailed(p, t) ==
    IF t.phase = "U"
    THEN Done([t EXCEPT !.uRes = "failed"], <<>>)
    ELSE Done([t EXCEPT !.sRes = "failed"],
              <<StreamerInfo(toLowerCase(logins[p]), FALSE)>>)

\* axios.get of one loop iteration of makeRequest
Sending(t, tok, a) ==
    [t EXCEPT !.pc = "req", !.attempt = a, !.headers = tok,
              !.gets = @ + 1, !.wakeAt = Null]

\* for-loop of makeRequest, line 117: attempt++ and the loop test, after a
\* `continue` or an iteration that neither returned nor threw
LoopContinues(a) == a <= maxRetries

NextIteration(p, t) ==
    IF LoopContinues(t.attempt + 1)
    THEN Sending(t, t.headers, t.attempt + 1)
    ELSE PhaseFailed(p, t)           \* line 167

\* number of GETs a step from task record t to task record u has sent
Sent(t, u) == IF u.pc = "req" /\ u.gets # t.gets THEN 1 ELSE 0

\* makeRequest up to its first await (getAuthHeaders -> getAccessToken),
\* called at time `at`: either the cached token is used and the first GET leaves, or a token
\* exchange is started
makeRequest(p, t, at) ==
    LET cached == TokenCached(at)
        fresh == [t EXCEPT !.gets = 0, !.rejected = Null, !.reset = Null,
                           !.wakeAt = Null,
                           !.tokenPath = IF cached THEN "cached"
                                         ELSE IF accessToken = Null THEN "first"
                                         ELSE "refresh"]
    IN  /\ IF cached
           THEN /\ task' = [task EXCEPT ![p] = Sending(fresh, accessToken, 1)]
                /\ dataRequests' = dataRequests + 1
                /\ exchanges' = exchanges
           ELSE /\ task' = [task EXCEPT ![p] =
                              [fresh EXCEPT !.pc = "tok", !.attempt = 0,
                                            !.headers = Null]]
                /\ exchanges' = exchanges + 1
                /\ dataRequests' = dataRequests

(***************************************************************************)
(* Pure helpers of the bulk services, the Kick service and NodeCache.      *)
(***************************************************************************)

\* the characters of a string: a handle is one character, except "a_b"
chars(s) ==
    CASE s = "a_b" -> <<"a", "_", "b">>
      [] s = "streamers_" -> <<"s", "t", "r", "e", "a", "m", "e", "r", "s", "_">>
      [] s = "kick_streamers_" ->
            <<"k", "i", "c", "k", "_", "s", "t", "r", "e", "a", "m", "e", "r", "s", "_">>
      [] s = "twitch_access_token" ->
            <<"t", "w", "i", "t", "c", "h", "_", "a", "c", "c", "e", "s", "s", "_",
              "t", "o", "k", "e", "n">>
      [] OTHER -> <<s>>

\* Array.prototype.join('_'): the characters of the joined string
RECURSIVE join(_)
join(l) ==
    IF Len(l) = 0 THEN <<>>
    ELSE IF Len(l) = 1 THEN chars(l[1])
    ELSE LET half == Len(l) \div 2
         IN  join(SubSeq(l, 1, half)) \o <<"_">> \o join(SubSeq(l, half + 1, Len(l)))

\* the template literal `${prefix}${names.join('_')}`
cacheKey(prefix, l) == chars(prefix) \o join(l)

TokenKey == chars("twitch_access_token")

\* new NodeCache(...): no entry
EmptyCache == [k \in {} |-> Null]

\* a lookup that never expires an entry
cacheGetNoExpiry(c, key, t) == {c[k] : k \in {x \in DOMAIN c : x = key}}

\* NodeCache.get: the live entries under `key` at time t (t = 0: no expiry)
cacheGet(c, key, t) ==
    {c[k] : k \in {x \in DOMAIN c : x = key /\ (c[x].t = 0 \/ c[x].t >= t)}}

\* NodeCache.set(key, value, ttl) at time t, ttl in seconds
cacheSet(c, key, v, ttl, t) ==
    [k \in DOMAIN c \cup {key} |->
        IF k = key
        THEN [value |-> v, t |-> IF ttl = 0 THEN 0 ELSE t + ttl * 1000]
        ELSE c[k]]

\* getAccessToken of the bulk service, line 41
BulkTokenCached(t) ==
    /\ accessToken # Null
    /\ tokenExpiresAt # Null /\ tokenExpiresAt # 0
    /\ t < tokenExpiresAt

\* the token getAccessToken returns without an exchange at time t, Null if none
CachedTokenAt(t) ==
    IF variant = "bulk"
    THEN IF BulkTokenCached(t) THEN accessToken ELSE Null
    ELSE LET hit == cacheGet(cache, TokenKey, t)
         IN  IF hit = {} THEN Null ELSE (CHOOSE e \in hit : TRUE).value[1]

\* GET /users?login=batch: one user per existing login, lower case, in the
\* order of first occurrence
usersOf(batch) ==
    LET lower == [k \in 1..Len(batch) |-> toLowerCase(batch[k])]
        first(k) == lower[k] \notin absent /\ \A j \in 1..(k - 1) : lower[j] # lower[k]
        kept == SelectSeq([k \in 1..Len(batch) |-> k], first)
    IN  [k \in 1..Len(kept) |-> lower[kept[k]]]

\* GET /streams?user_login=batch: user_login of the streams that are live
streamsOf(batch) ==
    {toLowerCase(batch[k]) : k \in 1..Len(batch)} \cap (LiveNow \ absent)

\* the object literal of the bulk merge, part_004 lines 126-136 and 242-252
\* (stream: streamsMap holds a stream for the user): viewers, title and
\* gameName are taken from the stream or null, and no duration is computed
BulkStreamerInfo(login, stream) ==
    [login |-> login,
     isLive |-> stream,
     streamData |-> stream,
     streamDurationMinutes |-> FALSE]

\* a merge that looks the user's login up as it is spelled
batchStreamerInfoCaseSensitive(users, streams) ==
    [k \in 1..Len(users) |-> BulkStreamerInfo(users[k], users[k] \in streams)]

\* users.map(user => ...), part_004 lines 121-137 and 237-253
batchStreamerInfo(users, streams) ==
    LET streamsMap == {toLowerCase(u) : u \in streams}
    IN  [k \in 1..Len(users) |->
            BulkStreamerInfo(users[k], toLowerCase(users[k]) \in streamsMap)]

\* KickService.getStreamersInfo, lines 72-86: the record of one streamer
\* (livestream: "live" | "offline" | "failed", the latter being null);
\* viewers and title are read from the livestream object whenever there is
\* one, and no duration is computed
KickStreamerInfo(slug, livestream) ==
    [login |-> slug,
     isLive |-> (livestream = "live"),
     streamData |-> (livestream # "failed"),
     streamDurationMinutes |-> FALSE]

\* (await Promise.all(streamerInfoPromises)).filter(Boolean) over positions a..b
RECURSIVE KickCollected(_, _, _, _)
KickCollected(l, tk, a, b) ==
    IF a > b THEN <<>>
    ELSE (IF tk[a].uRes = "found"
          THEN <<KickStreamerInfo(toLowerCase(l[a]), tk[a].sRes)>> ELSE <<>>)
         \o KickCollected(l, tk, a + 1, b)

\* an emptiness test that never holds
NothingToFetchNever(l) == FALSE

\* `if (logins.length === 0) return []` (part_004:92, :222, part_006:62)
NothingToFetch(l) == Len(l) = 0

\* the identity lists a service of the given class is asked for
ListsFor(v) ==
    IF v = "perIdentity" THEN ListsUpTo(MaxLen)
    ELSE IF v = "kick" THEN ListsUpTo(MaxKickLen)
    ELSE ListsUpTo(MaxShort)
         \cup {ListOf(n) : n \in (BATCH_SIZE - 1)..(BATCH_SIZE + MaxOver)}

(***************************************************************************)
(* Initial state: the service has just been constructed and the caller     *)
(* holds the identity list it is about to pass.                            *)
(***************************************************************************)
\* the fields of a service that has just been constructed
Fresh ==
    /\ now = Epoch0
    /\ accessToken = Null
    /\ tokenExpiresAt = Null
    /\ callPc = "idle"
    /\ i = 0
    /\ next = 0
    /\ paceAt = Null
    /\ results = <<>>
    /\ task = [p \in Pos |-> IdleTask]
    /\ exchanges = 0
    /\ dataRequests = 0
    /\ issued = 0
    /\ authRejected = FALSE
    /\ mustBeAfter = 0
    /\ faults = 0
    /\ victim = 0
    /\ calls = 0
    /\ cache = EmptyCache
    /\ bulk = IdleBulk
    /\ cuts = <<>>

Init ==
    /\ variant \in {"perIdentity", "bulk", "cached", "kick"}
    /\ logins \in ListsFor(variant)
    /\ absent \in {s \in SUBSET Names : Cardinality(s) <= MaxAbsent}
    /\ expiresIn \in IF variant \in {"bulk", "cached"}
                         \/ (variant = "perIdentity" /\ Len(logins) <= MaxTimedLen)
                      THEN ExpiresIn ELSE {ShortLife}
    /\ Fresh
    /\ input = <<>>
    /\ output = <<>>
    /\ streamersTable = <<>>

\* the clock is read d ms after it was last read
Reads(d) ==
    /\ d \in Latency
    /\ d = 0 \/ (now + d <= Epoch0 + MaxElapsed /\ Len(logins) <= MaxTimedLen)
    /\ now' = now + d

\* a timer set for `deadline` fires, d ms late
Fires(deadline, d) ==
    /\ d \in Latency
    /\ d = 0 \/ (Max(now, deadline) + d <= Epoch0 + MaxElapsed
                  /\ Len(logins) <= MaxTimedLen)
    /\ now' = Max(now, deadline) + d

\* the upstream fails a request of position p: within the budget, and all
\* failures of one behaviour hit the requests of one position
Fault(p) ==
    /\ faults < MaxFaults
    /\ victim \in {0, p}
    /\ faults' = faults + 1
    /\ victim' = p

(***************************************************************************)
(* getMultipleStreamersInfo (TwitchServices.ts:284-317)                    *)
(***************************************************************************)

\* the call itself, up to the first batch.map or the return of an empty list
GetMultipleStreamersInfo ==
    /\ variant = "perIdentity"
    /\ callPc = "idle"
    /\ results' = <<>>
    /\ i' = 0
    /\ calls' = calls + 1
    /\ IF 0 < Len(logins)
       THEN callPc' = "spawn" /\ next' = 1 /\ cuts' = <<BatchAt(logins, 0)>>
       ELSE callPc' = "done" /\ next' = 0 /\ cuts' = <<>>
    /\ UNCHANGED <<env, cache, bulk, now, tokenSlot, paceAt, task, exchanges, dataRequests, issued,
                   authRejected, mustBeAfter, faults, victim>>

\* batch.map(login => this.getStreamerInfo(login)) reaches position p
Spawn(p) ==
    /\ variant = "perIdentity"
    /\ callPc = "spawn"
    /\ p = next
    /\ p \in BatchPos(logins, i)
    /\ makeRequest(p, [IdleTask EXCEPT !.phase = "U"], now)
    /\ IF p + 1 \in BatchPos(logins, i)
       THEN callPc' = "spawn" /\ next' = p + 1
       ELSE callPc' = "await" /\ next' = 0
    /\ UNCHANGED <<env, bulkState, cuts, now, tokenSlot, i, paceAt, results, issued, authRejected,
                   mustBeAfter, faults, victim>>

\* the token endpoint answers 200 to the exchange started for task p
TokenGranted(p, d) ==
    /\ variant = "perIdentity"
    /\ callPc = "await"
    /\ task[p].pc = "tok"
    /\ Reads(d)
    /\ issued' = issued + 1
    /\ LET response == [access_token |-> issued + 1, expires_in |-> expiresIn]
       IN  /\ accessToken' = response.access_token
           /\ tokenExpiresAt' = StoredExpiry(now', response.expires_in)
           /\ task' = [task EXCEPT ![p] = Sending(@, accessToken', 1)]
    /\ dataRequests' = dataRequests + 1
    /\ UNCHANGED <<env, bulkState, cuts, callPc, i, next, paceAt, results, exchanges, authRejected,
                   mustBeAfter, faults, victim>>

\* the token endpoint refuses (400, 401, 500) or is unreachable (0):
\* getAccessToken throws TwitchApiError, the lookup's catch returns null
TokenRefused(p, status) ==
    /\ variant = "perIdentity"
    /\ callPc = "await"
    /\ task[p].pc = "tok"
    /\ Fault(p)
    /\ authRejected' = (authRejected \/ status \in {400, 401})
    /\ task' = [task EXCEPT ![p] = PhaseFailed(p, @)]
    /\ UNCHANGED <<env, bulkState, cuts, now, tokenSlot, callPc, i, next, paceAt, results, exchanges,
                   dataRequests, issued, mustBeAfter>>

(***************************************************************************)
(* makeRequest (TwitchServices.ts:110-168): answers to the GET in flight   *)
(***************************************************************************)

\* 200: response.data is returned; response.data.data is non-empty iff the
\* login exists (users) or is streaming (streams)
Resp200(p, d) ==
    /\ variant = "perIdentity"
    /\ callPc = "await"
    /\ task[p].pc = "req"
    /\ Reads(d)
    /\ IF task[p].phase = "U"
       THEN IF toLowerCase(logins[p]) \notin absent
            THEN \* getStreamerInfo goes on to getStreamByUserLogin(user.login)
                 makeRequest(p, [task[p] EXCEPT !.uRes = "found", !.phase = "S"],
                             now + d)
            ELSE /\ d = 0
                 /\ task' = [task EXCEPT ![p] =
                               Done([@ EXCEPT !.uRes = "notfound"], <<>>)]
                 /\ UNCHANGED <<exchanges, dataRequests>>
       ELSE /\ d = 0
            /\ task' = [task EXCEPT ![p] =
                          LET found == toLowerCase(logins[p]) \in LiveNow
                          IN  Done([@ EXCEPT !.sRes = IF found THEN "live"
                                                     ELSE "offline"],
                                   <<StreamerInfo(toLowerCase(logins[p]), found)>>)]
            /\ UNCHANGED <<exchanges, dataRequests>>
    /\ UNCHANGED <<env, bulkState, cuts, tokenSlot, callPc, i, next, paceAt, results, issued,
                   authRejected, mustBeAfter, faults, victim>>

\* the reset times (epoch seconds) an upstream 429 may announce; Null: no header
ResetChoices(t) == {Null, (t \div 1000) + 5, (t \div 1000) - 1}

\* 429 with Ratelimit-Reset = reset
Resp429(p, reset, d) ==
    /\ variant = "perIdentity"
    /\ callPc = "await"
    /\ task[p].pc = "req"
    /\ Fault(p)
    /\ Reads(d)
    /\ reset \in ResetChoices(now')
    /\ Len(logins) <= MaxTimedLen
    /\ LET resetTime == IF reset = Null THEN <<>> ELSE Digits(reset)
           until == IF reset = Null THEN now' + FallbackWaitMs ELSE reset * 1000
       IN  IF task[p].attempt < maxRetries
           THEN /\ task' = [task EXCEPT ![p] =
                              [@ EXCEPT !.pc = "sleep",
                                        !.wakeAt = now' + SleepMs(now', resetTime),
                                        !.reset = until]]
                /\ mustBeAfter' = Max(mustBeAfter, until)
           ELSE /\ task' = [task EXCEPT ![p] =
                              IF @.attempt = maxRetries
                              THEN PhaseFailed(p, @) ELSE NextIteration(p, @)]
                /\ mustBeAfter' = mustBeAfter
    /\ dataRequests' = dataRequests + Sent(task[p], task'[p])
    /\ UNCHANGED <<env, bulkState, cuts, tokenSlot, callPc, i, next, paceAt, results, exchanges,
                   issued, authRejected>>

\* the setTimeout of the 429 branch fires: `continue`
Wake(p, d) ==
    /\ variant = "perIdentity"
    /\ callPc = "await"
    /\ task[p].pc = "sleep"
    /\ Fires(task[p].wakeAt, d)
    /\ task' = [task EXCEPT ![p] = NextIteration(p, @)]
    /\ dataRequests' = dataRequests + Sent(task[p], task'[p])
    /\ UNCHANGED <<env, bulkState, cuts, tokenSlot, callPc, i, next, paceAt, results, exchanges, issued,
                   authRejected, mustBeAfter, faults, victim>>

\* 401
Resp401(p) ==
    /\ variant = "perIdentity"
    /\ callPc = "await"
    /\ task[p].pc = "req"
    /\ Fault(p)
    /\ IF task[p].attempt < maxRetries
       THEN /\ accessToken' = Null
            /\ tokenExpiresAt' = Null
            /\ task' = [task EXCEPT ![p] =
                          NextIteration(p, [@ EXCEPT !.rejected = task[p].headers])]
       ELSE /\ UNCHANGED <<accessToken, tokenExpiresAt>>
            /\ task' = [task EXCEPT ![p] =
                          IF @.attempt = maxRetries
                          THEN PhaseFailed(p, @) ELSE NextIteration(p, @)]
    /\ dataRequests' = dataRequests + Sent(task[p], task'[p])
    /\ UNCHANGED <<env, bulkState, cuts, now, callPc, i, next, paceAt, results, exchanges, issued,
                   authRejected, mustBeAfter>>

\* any other failure: a 5xx answer (withResponse) or a network error
RespError(p, withResponse) ==
    /\ variant = "perIdentity"
    /\ callPc = "await"
    /\ task[p].pc = "req"
    /\ Fault(p)
    /\ task' = [task EXCEPT ![p] =
                  IF @.attempt = maxRetries
                  THEN PhaseFailed(p, @) ELSE NextIteration(p, @)]
    /\ dataRequests' = dataRequests + Sent(task[p], task'[p])
    /\ UNCHANGED <<env, bulkState, cuts, now, tokenSlot, callPc, i, next, paceAt, results, exchanges,
                   issued, authRejected, mustBeAfter>>

(***************************************************************************)
(* getMultipleStreamersInfo: after Promise.allSettled                      *)
(***************************************************************************)

\* a forEach that lets one null lookup empty its whole batch
CollectedFailFast(tk, a, b) ==
    IF \E p \in a..b : tk[p].value = <<>> THEN <<>>
    ELSE [k \in 1..(b - a + 1) |-> tk[a + k - 1].value[1]]

\* values of the tasks at positions a..b, nulls dropped, in position order
RECURSIVE Collected(_, _, _)
Collected(tk, a, b) ==
    IF a > b THEN <<>> ELSE tk[a].value \o Collected(tk, a + 1, b)

\* a combinator that resolves with the first lookup that returns
anySettled(tk, ps) == \E p \in ps : tk[p].pc = "done"

\* Promise.allSettled(batchPromises), line 298: every lookup has returned
allSettled(tk, ps) == \A p \in ps : tk[p].pc = "done"

\* batchResults.forEach, then the pacing timer or the end of the loop
Settle(d) ==
    /\ variant = "perIdentity"
    /\ callPc = "await"
    /\ Reads(d)
    /\ allSettled(task, BatchPos(logins, i))
    /\ results' = results \o Collected(task, i + 1, i + Len(BatchAt(logins, i)))
    /\ IF i + batchSize < Len(logins)
       THEN /\ callPc' = "pacing"
            /\ paceAt' = now' + BatchDelayMs
            /\ i' = i
       ELSE /\ callPc' = "done"
            /\ paceAt' = Null
            /\ i' = i + batchSize
    /\ UNCHANGED <<env, bulkState, cuts, tokenSlot, next, task, exchanges, dataRequests, issued,
                   authRejected, mustBeAfter, faults, victim>>

\* the pacing timer fires: i += batchSize, next batch
NextBatch(d) ==
    /\ variant = "perIdentity"
    /\ callPc = "pacing"
    /\ Fires(paceAt, d)
    /\ i' = i + batchSize
    /\ paceAt' = Null
    /\ callPc' = "spawn"
    /\ next' = i + batchSize + 1
    /\ cuts' = Append(cuts, BatchAt(logins, i + batchSize))
    /\ UNCHANGED <<env, bulkState, tokenSlot, results, task, exchanges, dataRequests, issued,
                   authRejected, mustBeAfter, faults, victim>>

(***************************************************************************)
(* getStreamersInfo of the bulk services (part_004:91-155 and :214-264)    *)
(***************************************************************************)
Bulk == variant \in {"bulk", "cached"}

\* the upstream fails a request of a bulk or Kick service: within the budget
Upset ==
    /\ faults < MaxFaults
    /\ faults' = faults + 1
    /\ victim' = victim

\* a fetch call may start: none is running, and the instance serves MaxCalls
\* of them, g ms after the previous one ended
CallStarts(g) ==
    /\ callPc \in {"idle", "done", "raised"}
    /\ calls < MaxCalls
    /\ g \in IF calls = 0 THEN {0} ELSE Gaps
    /\ calls' = calls + 1
    /\ now' = now + g
    /\ authRejected' = FALSE

\* loop body up to Promise.all: the batch at loop index k is cut and its two
\* GETs leave, carrying the headers built from token tok
SendBatch(k, tok, cutsSoFar) ==
    /\ callPc' = "await"
    /\ i' = k
    /\ cuts' = Append(cutsSoFar, slice(logins, k, k + BATCH_SIZE))
    /\ bulk' = [headers |-> tok, users |-> "pending", streams |-> "pending"]
    /\ dataRequests' = dataRequests + 2

\* the call, up to its first await or its return
GetStreamersInfo(g) ==
    /\ Bulk
    /\ CallStarts(g)
    /\ LET cachedData == IF variant = "cached"
                         THEN cacheGet(cache, cacheKey("streamers_", logins), now')
                         ELSE {}
       IN  IF cachedData # {}
           THEN /\ callPc' = "done"
                /\ results' = (CHOOSE e \in cachedData : TRUE).value
                /\ UNCHANGED <<i, cuts, bulk, dataRequests, exchanges>>
           ELSE IF NothingToFetch(logins)
           THEN /\ callPc' = "done"
                /\ results' = <<>>
                /\ UNCHANGED <<i, cuts, bulk, dataRequests, exchanges>>
           ELSE /\ results' = <<>>
                /\ IF CachedTokenAt(now') # Null
                   THEN /\ SendBatch(0, CachedTokenAt(now'), <<>>)
                        /\ exchanges' = exchanges
                   ELSE /\ callPc' = "tok"
                        /\ exchanges' = exchanges + 1
                        /\ i' = 0
                        /\ cuts' = <<>>
                        /\ bulk' = IdleBulk
                        /\ dataRequests' = dataRequests
    /\ UNCHANGED <<env, tokenSlot, cache, next, paceAt, task, issued, mustBeAfter,
                   faults, victim>>

\* the token endpoint answers 200: the token is stored and the first batch sent
BulkTokenGranted ==
    /\ Bulk
    /\ callPc = "tok"
    /\ issued' = issued + 1
    /\ LET response == [access_token |-> issued + 1, expires_in |-> expiresIn]
       IN  /\ IF variant = "bulk"
              THEN /\ accessToken' = response.access_token
                   /\ tokenExpiresAt' = StoredExpiry(now, response.expires_in)
                   /\ cache' = cache
              ELSE /\ cache' = cacheSet(cache, TokenKey, <<response.access_token>>,
                                        response.expires_in - TokenTtlMargin, now)
                   /\ UNCHANGED tokenSlot
           /\ SendBatch(0, response.access_token, <<>>)
    /\ UNCHANGED <<env, now, calls, next, paceAt, results, task, exchanges,
                   authRejected, mustBeAfter, faults, victim>>

\* a catch that returns what has been merged so far in both bulk services
CaughtReturnsPartial ==
    /\ bulk' = IdleBulk
    /\ callPc' = "done"
    /\ results' = results

\* a catch that rethrows in both bulk services
CaughtRethrows ==
    /\ bulk' = IdleBulk
    /\ callPc' = "raised"
    /\ results' = results

\* catch of getStreamersInfo: `return []` (line 153) or `throw` (line 262)
Caught ==
    /\ bulk' = IdleBulk
    /\ IF variant = "bulk"
       THEN callPc' = "done" /\ results' = <<>>
       ELSE callPc' = "raised" /\ results' = results

\* the token endpoint refuses (400, 401, 500) or is unreachable (0)
BulkTokenRefused(status) ==
    /\ Bulk
    /\ callPc = "tok"
    /\ Upset
    /\ authRejected' = (authRejected \/ status \in {400, 401})
    /\ Caught
    /\ UNCHANGED <<env, now, tokenSlot, calls, cache, cuts, i, next, paceAt, task,
                   exchanges, dataRequests, issued, mustBeAfter>>

\* one of the two GETs fails (401, 429, 5xx, network): Promise.all rejects
BulkRequestFailed(which, status) ==
    /\ Bulk
    /\ callPc = "await"
    /\ bulk[which] = "pending"
    /\ Upset
    /\ Caught
    /\ UNCHANGED <<env, now, tokenSlot, calls, cache, cuts, i, next, paceAt, task,
                   exchanges, dataRequests, issued, authRejected, mustBeAfter>>

\* one of the two GETs is answered 200; with the second answer Promise.all
\* resolves and the rest of the loop body runs
BulkAnswered(which) ==
    /\ Bulk
    /\ callPc = "await"
    /\ bulk[which] = "pending"
    /\ LET other == IF which = "users" THEN "streams" ELSE "users"
           batch == cuts[Len(cuts)]
           merged == results \o batchStreamerInfo(usersOf(batch), streamsOf(batch))
       IN  IF bulk[other] # "ok"
           THEN /\ bulk' = [bulk EXCEPT ![which] = "ok"]
                /\ UNCHANGED <<callPc, i, cuts, results, paceAt, cache, dataRequests>>
           ELSE /\ results' = merged
                /\ IF i + BATCH_SIZE < Len(logins)
                   THEN IF variant = "bulk"
                        THEN /\ callPc' = "pacing"
                             /\ paceAt' = now + BulkDelayMs
                             /\ bulk' = [bulk EXCEPT !.users = "none",
                                                     !.streams = "none"]
                             /\ UNCHANGED <<i, cuts, cache, dataRequests>>
                        ELSE /\ SendBatch(i + BATCH_SIZE, bulk.headers, cuts)
                             /\ UNCHANGED <<paceAt, cache>>
                   ELSE /\ callPc' = "done"
                        /\ i' = i + BATCH_SIZE
                        /\ bulk' = IdleBulk
                        /\ cache' = IF variant = "cached"
                                    THEN cacheSet(cache, cacheKey("streamers_", logins),
                                                  merged, stdTTL, now)
                                    ELSE cache
                        /\ UNCHANGED <<cuts, paceAt, dataRequests>>
    /\ UNCHANGED <<env, now, tokenSlot, calls, next, task, exchanges, issued,
                   authRejected, mustBeAfter, faults, victim>>

\* the pacing timer of the bulk service fires: i += BATCH_SIZE, next batch
BulkNextBatch ==
    /\ variant = "bulk"
    /\ callPc = "pacing"
    /\ now' = Max(now, paceAt)
    /\ paceAt' = Null
    /\ SendBatch(i + BATCH_SIZE, bulk.headers, cuts)
    /\ UNCHANGED <<env, tokenSlot, calls, cache, next, results, task, exchanges,
                   issued, authRejected, mustBeAfter, faults, victim>>

(***************************************************************************)
(* KickService.getStreamersInfo (part_006:54-94)                           *)
(***************************************************************************)

\* the call, up to its await: every identity's two GETs leave at once
KickGetStreamersInfo(g) ==
    /\ variant = "kick"
    /\ CallStarts(g)
    /\ LET cachedData == cacheGet(cache, cacheKey("kick_streamers_", logins), now')
       IN  IF cachedData # {}
           THEN /\ callPc' = "done"
                /\ results' = (CHOOSE e \in cachedData : TRUE).value
                /\ UNCHANGED <<task, dataRequests>>
           ELSE IF NothingToFetch(logins)
           THEN /\ callPc' = "done"
                /\ results' = <<>>
                /\ UNCHANGED <<task, dataRequests>>
           ELSE /\ callPc' = "await"
                /\ results' = <<>>
                /\ task' = [p \in Pos |->
                              IF p <= Len(logins)
                              THEN [IdleTask EXCEPT !.pc = "req"] ELSE IdleTask]
                /\ dataRequests' = dataRequests + 2 * Len(logins)
    /\ UNCHANGED <<env, tokenSlot, cache, bulk, cuts, i, next, paceAt, exchanges,
                   issued, mustBeAfter, faults, victim>>

\* getStreamerInfo(logins[p]): the channel GET is answered (ok) or fails; a
\* channel that does not exist always fails (404)
KickUserAnswered(p, ok) ==
    /\ variant = "kick"
    /\ callPc = "await"
    /\ p <= Len(logins)
    /\ task[p].uRes = "pending"
    /\ IF toLowerCase(logins[p]) \in absent
       THEN ok = FALSE /\ UNCHANGED <<faults, victim>>
       ELSE IF ok THEN UNCHANGED <<faults, victim>> ELSE Upset
    /\ task' = [task EXCEPT ![p].uRes = IF ok THEN "found" ELSE "failed"]
    /\ UNCHANGED <<env, bulkState, cuts, now, tokenSlot, callPc, i, next, paceAt,
                   results, exchanges, dataRequests, issued, authRejected,
                   mustBeAfter>>

\* getLivestreamInfo(logins[p]): the livestream GET is answered or fails
KickLiveAnswered(p, ok) ==
    /\ variant = "kick"
    /\ callPc = "await"
    /\ p <= Len(logins)
    /\ task[p].sRes = "pending"
    /\ IF toLowerCase(logins[p]) \in absent
       THEN ok = FALSE /\ UNCHANGED <<faults, victim>>
       ELSE IF ok THEN UNCHANGED <<faults, victim>> ELSE Upset
    /\ task' = [task EXCEPT ![p].sRes =
                  IF ~ok THEN "failed"
                  ELSE IF toLowerCase(logins[p]) \in LiveNow THEN "live"
                  ELSE "offline"]
    /\ UNCHANGED <<env, bulkState, cuts, now, tokenSlot, callPc, i, next, paceAt,
                   results, exchanges, dataRequests, issued, authRejected,
                   mustBeAfter>>

\* the outer Promise.all resolves: filter(Boolean), cache.set, return
KickSettle ==
    /\ variant = "kick"
    /\ callPc = "await"
    /\ \A p \in 1..Len(logins) : task[p].uRes # "pending" /\ task[p].sRes # "pending"
    /\ results' = KickCollected(logins, task, 1, Len(logins))
    /\ cache' = cacheSet(cache, cacheKey("kick_streamers_", logins), results',
                         stdTTL, now)
    /\ callPc' = "done"
    /\ task' = [p \in Pos |-> IF p <= Len(logins) THEN [task[p] EXCEPT !.pc = "done"]
                               ELSE task[p]]
    /\ UNCHANGED <<env, calls, bulk, cuts, now, tokenSlot, i, next, paceAt, exchanges,
                   dataRequests, issued, authRejected, mustBeAfter, faults, victim>>

Next ==
    \/ GetMultipleStreamersInfo
    \/ \E p \in Pos : Spawn(p)
    \/ \E p \in Pos, d \in Latency : TokenGranted(p, d)
    \/ \E p \in Pos, st \in {400, 401, 500, 0} : TokenRefused(p, st)
    \/ \E p \in Pos, d \in Latency : Resp200(p, d)
    \/ \E p \in Pos, d \in Latency :
          \E r \in ResetChoices(now + d) : Resp429(p, r, d)
    \/ \E p \in Pos, d \in Latency : Wake(p, d)
    \/ \E p \in Pos : Resp401(p)
    \/ \E p \in Pos, w \in BOOLEAN : RespError(p, w)
    \/ \E d \in Latency : Settle(d)
    \/ \E d \in Latency : NextBatch(d)
    \/ \E g \in Gaps \cup {0} : GetStreamersInfo(g)
    \/ BulkTokenGranted
    \/ \E st \in {400, 401, 500, 0} : BulkTokenRefused(st)
    \/ \E w \in {"users", "streams"}, st \in {401, 429, 500, 0} :
          BulkRequestFailed(w, st)
    \/ \E w \in {"users", "streams"} : BulkAnswered(w)
    \/ BulkNextBatch
    \/ \E g \in Gaps \cup {0} : KickGetStreamersInfo(g)
    \/ \E p \in Pos, ok \in BOOLEAN : KickUserAnswered(p, ok)
    \/ \E p \in Pos, ok \in BOOLEAN : KickLiveAnswered(p, ok)
    \/ KickSettle

Spec == Init /\ [][Next]_vars

(***************************************************************************)
(* KickService alone, asked for a roster one identity longer than a batch  *)
(* of the per-identity Twitch service.                                     *)
(***************************************************************************)
InitKick ==
    /\ variant = "kick"
    /\ logins = ListOf(batchSize + 1)
    /\ absent \in {s \in SUBSET Names : Cardinality(s) <= MaxAbsent}
    /\ expiresIn = ShortLife
    /\ Fresh
    /\ input = <<>>
    /\ output = <<>>
    /\ streamersTable = <<>>

NextKick ==
    \/ \E g \in Gaps \cup {0} : KickGetStreamersInfo(g)
    \/ \E p \in Pos, ok \in BOOLEAN : KickUserAnswered(p, ok)
    \/ \E p \in Pos, ok \in BOOLEAN : KickLiveAnswered(p, ok)
    \/ KickSettle

SpecKick == InitKick /\ [][NextKick]_vars

(***************************************************************************)
(* The caching services, called again with the same identities spelled in  *)
(* another case.                                                           *)
(***************************************************************************)

\* the list with every identity in lower case
Normalized(l) == [k \in 1..Len(l) |-> toLowerCase(l[k])]

\* the spellings of the identities of list l the caller may pass
Respellings(l) ==
    {m \in [1..Len(l) -> {"a", "B", "b", "c", "D", "d"}] : Normalized(m) = Normalized(l)}

InitRespell ==
    /\ variant \in {"cached", "kick"}
    /\ logins \in ListsUpTo(MaxShort)
    /\ absent \in {s \in SUBSET Names : Cardinality(s) <= MaxAbsent}
    /\ expiresIn \in ExpiresIn
    /\ Fresh
    /\ input = <<>>
    /\ output = <<>>
    /\ streamersTable = <<>>

\* between two calls the caller spells the same identities differently
Respell(l) ==
    /\ callPc \in {"done", "raised"}
    /\ l \in Respellings(logins) \ {logins}
    /\ logins' = l
    /\ UNCHANGED <<variant, absent, expiresIn, input, output, now, tokenSlot, callPc,
                   i, next, paceAt, results, task, exchanges, dataRequests, issued,
                   authRejected, mustBeAfter, faults, victim, bulkState, cuts,
                   streamersTable>>

NextRespell ==
    \/ \E g \in Gaps \cup {0} : GetStreamersInfo(g)
    \/ BulkTokenGranted
    \/ \E st \in {400, 401, 500, 0} : BulkTokenRefused(st)
    \/ \E w \in {"users", "streams"}, st \in {401, 429, 500, 0} :
          BulkRequestFailed(w, st)
    \/ \E w \in {"users", "streams"} : BulkAnswered(w)
    \/ \E g \in Gaps \cup {0} : KickGetStreamersInfo(g)
    \/ \E p \in Pos, ok \in BOOLEAN : KickUserAnswered(p, ok)
    \/ \E p \in Pos, ok \in BOOLEAN : KickLiveAnswered(p, ok)
    \/ KickSettle
    \/ \E l \in Respellings(logins) : Respell(l)

SpecRespell == InitRespell /\ [][NextRespell]_vars

(***************************************************************************)
(* The caching services, called in turn for lists whose handles contain    *)
(* the separator of the cache key.                                         *)
(***************************************************************************)

\* the lists the caller passes; a Twitch login may contain an underscore
Underscored == {<<>>, <<"a">>, <<"a", "b">>, <<"a_b">>}

InitUnderscored ==
    /\ variant \in {"cached", "kick"}
    /\ logins \in Underscored
    /\ absent \in {s \in SUBSET Names : Cardinality(s) <= MaxAbsent}
    /\ expiresIn \in ExpiresIn
    /\ Fresh
    /\ input = <<>>
    /\ output = <<>>
    /\ streamersTable = <<>>

\* between two calls the caller takes another list
Relist(l) ==
    /\ callPc \in {"done", "raised"}
    /\ l \in Underscored \ {logins}
    /\ logins' = l
    /\ UNCHANGED <<variant, absent, expiresIn, input, output, now, tokenSlot, callPc,
                   i, next, paceAt, results, task, exchanges, dataRequests, issued,
                   authRejected, mustBeAfter, faults, victim, bulkState, cuts,
                   streamersTable>>

NextUnderscored ==
    \/ \E g \in Gaps \cup {0} : GetStreamersInfo(g)
    \/ BulkTokenGranted
    \/ \E st \in {400, 401, 500, 0} : BulkTokenRefused(st)
    \/ \E w \in {"users", "streams"}, st \in {401, 429, 500, 0} :
          BulkRequestFailed(w, st)
    \/ \E w \in {"users", "streams"} : BulkAnswered(w)
    \/ \E g \in Gaps \cup {0} : KickGetStreamersInfo(g)
    \/ \E p \in Pos, ok \in BOOLEAN : KickUserAnswered(p, ok)
    \/ \E p \in Pos, ok \in BOOLEAN : KickLiveAnswered(p, ok)
    \/ KickSettle
    \/ \E l \in Underscored : Relist(l)

SpecUnderscored == InitUnderscored /\ [][NextUnderscored]_vars

(***************************************************************************)
(* The merge of the bulk services (part_004:121-139, :237-254) on its own: *)
(* the two response bodies are the input, spelled as the upstream pleases. *)
(***************************************************************************)
Spellings == {"a", "B", "b", "D"}      \* login / user_login as the upstream spells it

\* all sequences over S of length at most n
SeqsUpTo(S, n) == UNION {[1..k -> S] : k \in 0..n}

InitMerge ==
    /\ variant \in {"bulk", "cached"}
    /\ logins = <<>>
    /\ absent = {}
    /\ expiresIn = ShortLife
    /\ Fresh
    /\ input \in [users : SeqsUpTo(Spellings, MaxUsers), streams : SUBSET Spellings]
    /\ output = <<>>
    /\ streamersTable = <<>>

\* usersResponse.data.data and streamsResponse.data.data are merged
Merge ==
    /\ Bulk
    /\ callPc = "idle"
    /\ output' = batchStreamerInfo(input.users, input.streams)
    /\ callPc' = "done"
    /\ UNCHANGED <<variant, logins, absent, expiresIn, input, now, tokenSlot, i,
                   next, paceAt, results, task, exchanges, dataRequests, issued,
                   authRejected, mustBeAfter, faults, victim, bulkState, cuts,
                   streamersTable>>

NextMerge == Merge

SpecMerge == InitMerge /\ [][NextMerge]_vars

(***************************************************************************)
(* StatsService.calculateStatistics (DatabaseService.ts:142-208 and, the   *)
(* earlier class, :299-363).  `variant` is "stats" for the former and      *)
(* "statsLegacy" for the latter.  A record of the input list is            *)
(*   [id, isLive, viewCount, viewers, broadcasterType, gameName]           *)
(* where id is the position of the record in the list (it stands for the   *)
(* login), viewCount is Null when undefined, viewers is the concurrent     *)
(* viewer count (s.viewers, or s.streamData?.viewerCount in the earlier    *)
(* class), Null when there is none, and gameName is the game (s.gameName,  *)
(* or s.streamData?.gameName), "" when there is none.                      *)
(***************************************************************************)
Tiers == {"partner", "affiliate", ""}

\* viewCount as the records of each class have it: optional in types.ts:150;
\* always a number for the earlier class (set at TwitchServices.ts:259, read
\* unguarded at index.ts:114)
ViewCounts(v) == IF v = "stats" THEN {Null, 100, 300} ELSE {100, 300}

\* lists of at most MaxWide arbitrary records
WideLists(v) ==
    UNION {[1..n -> [isLive : BOOLEAN, viewCount : ViewCounts(v),
                     viewers : {Null, 50}, broadcasterType : Tiers,
                     gameName : {""}]]
             : n \in 0..MaxWide}

\* lists of more than MaxWide and at most MaxLong offline affiliates that differ
\* in their view counts only
LongLists(v) ==
    UNION {[1..n -> [isLive : {FALSE}, viewCount : ViewCounts(v),
                     viewers : {Null}, broadcasterType : {"affiliate"},
                     gameName : {""}]]
             : n \in (MaxWide + 1)..MaxLong}

\* game names; "2048" is one that reads as an array index
Games == {"x", "y", "2048"}

\* lists of at most MaxGames records that differ in being live, in their
\* viewers and in their game
GameLists ==
    UNION {[1..n -> [isLive : BOOLEAN, viewCount : {100},
                     viewers : {Null, 50, 70}, broadcasterType : {""},
                     gameName : Games \cup {""}]]
             : n \in 1..MaxGames}

\* the game of the k-th record of a list of live records that has more games
\* than popularGames keeps
ManyGames == <<"g1", "g2", "g3", "g4", "g5", "g6", "g7", "g8">>

\* lists of more than TopCount live records, the k-th playing its own game
\* or the game of the first
ManyGamesLists ==
    UNION {{[k \in 1..n |->
               [isLive |-> TRUE, viewCount |-> 100, viewers |-> 50,
                broadcasterType |-> "",
                gameName |-> IF k \in own THEN ManyGames[k] ELSE ManyGames[1]]]
             : own \in SUBSET (1..n)}
           : n \in (TopCount + 1)..MaxLong}

\* the list with every record tagged by its position
Tagged(l) ==
    [k \in 1..Len(l) |->
        [id |-> k, isLive |-> l[k].isLive, viewCount |-> l[k].viewCount,
         viewers |-> l[k].viewers, broadcasterType |-> l[k].broadcasterType,
         gameName |-> l[k].gameName]]

StatsInputs(v) ==
    {Tagged(l) : l \in WideLists(v) \cup LongLists(v) \cup GameLists
                        \cup ManyGamesLists}

\* `x || 0` on a number or undefined
OrZero(x) == IF x = Null THEN 0 ELSE x

\* sum of a sequence of numbers, as reduce((sum, s) => sum + ..., 0) adds them
RECURSIVE sum(_)
sum(ns) == IF Len(ns) = 0 THEN 0 ELSE sum(SubSeq(ns, 1, Len(ns) - 1)) + ns[Len(ns)]

RECURSIVE gcd(_, _)
gcd(a, b) == IF b = 0 THEN a ELSE gcd(b, a % b)

\* the Number a / b for integers a, b >= 0, as the fraction <<p, q>> in lowest
\* terms; <<0, 0>> is NaN (0 / 0) and <<1, 0>> is Infinity
Quotient(a, b) ==
    IF b = 0 THEN (IF a = 0 THEN <<0, 0>> ELSE <<1, 0>>)
    ELSE <<a \div gcd(a, b), b \div gcd(a, b)>>

NaN == <<0, 0>>

\* the sort key of topStreamers: (s.viewCount || 0) at line 156, s.viewCount
\* at line 312 (always a number there)
viewKey(s) == OrZero(s.viewCount)

\* an insertion that puts x before the records of equal key
insertBefore(x, sorted) ==
    LET before == SelectSeq(sorted, LAMBDA y : viewKey(y) > viewKey(x))
        after == SelectSeq(sorted, LAMBDA y : viewKey(y) <= viewKey(x))
    IN  before \o <<x>> \o after

\* x, a record that followed every record of `sorted` in the input, takes its
\* place in the descending order: behind the records of equal key
insert(x, sorted) ==
    LET before == SelectSeq(sorted, LAMBDA y : viewKey(y) >= viewKey(x))
        after == SelectSeq(sorted, LAMBDA y : viewKey(y) < viewKey(x))
    IN  before \o <<x>> \o after

\* Array.prototype.sort((a, b) => key(b) - key(a)): descending and stable
RECURSIVE sort(_)
sort(l) ==
    IF Len(l) = 0 THEN <<>>
    ELSE insert(l[Len(l)], sort(SubSeq(l, 1, Len(l) - 1)))

\* a top list that sorts every record, with or without a view count
topStreamersUnfiltered(streamers, v) == slice(sort(streamers), 0, TopCount)

\* lines 153-157: filter, sort, slice(0, 5); lines 310-313: sort, slice(0, 5)
topStreamers(streamers, v) ==
    LET kept == IF v = "stats"
                THEN SelectSeq(streamers, LAMBDA x : x.viewCount # Null)
                ELSE streamers
    IN  slice(sort(kept), 0, TopCount)

\* stable descending sort of <<key, value>> pairs by key, as
\* Array.prototype.sort((a, b) => key(b) - key(a)) orders the values
RECURSIVE sortPairs(_)
sortPairs(ps) ==
    IF Len(ps) = 0 THEN <<>>
    ELSE LET x == ps[Len(ps)]
             sorted == sortPairs(SubSeq(ps, 1, Len(ps) - 1))
         IN  SelectSeq(sorted, LAMBDA y : y[1] >= x[1]) \o <<x>>
               \o SelectSeq(sorted, LAMBDA y : y[1] < x[1])

values(ps) == [k \in 1..Len(ps) |-> ps[k][2]]

\* a live list that keeps the records without a viewer count
sortedLiveStreamersUnfiltered(streamers, v) ==
    LET live == SelectSeq(streamers, LAMBDA x : x.isLive)
    IN  values(sortPairs([k \in 1..Len(live) |->
                             <<OrZero(live[k].viewers), live[k]>>]))

\* lines 159-162: liveStreamers.filter(s => s.viewers !== null).sort(...);
\* lines 315-317: liveStreamers.sort(...)
sortedLiveStreamers(streamers, v) ==
    LET live == SelectSeq(streamers, LAMBDA x : x.isLive)
        kept == IF v = "stats"
                THEN SelectSeq(live, LAMBDA x : x.viewers # Null)
                ELSE live
    IN  values(sortPairs([k \in 1..Len(kept) |->
                             <<OrZero(kept[k].viewers), kept[k]>>]))

\* a live list that no sort has touched
liveStreamersInInputOrder(streamers, v) == SelectSeq(streamers, LAMBDA x : x.isLive)

\* liveStreamers as the statements after line 162 / 317 find it: filter()
\* at line 160 copies, so the later class still has the input order; the
\* sort at line 316 is applied to liveStreamers itself and reorders it
liveStreamers(streamers, v) ==
    IF v = "stats" THEN SelectSeq(streamers, LAMBDA x : x.isLive)
    ELSE sortedLiveStreamers(streamers, v)

\* Object.entries(gameFrequency): the keys that read as array indices come
\* first (in ascending order; the model has one such name), the other keys
\* follow in the order in which they were inserted
entries(names) ==
    SelectSeq(names, LAMBDA g : g = "2048") \o SelectSeq(names, LAMBDA g : g # "2048")

\* lines 164-176 and 319-331: gameFrequency, then sort, slice(0, 5), map
popularGames(streamers, v) ==
    LET live == liveStreamers(streamers, v)
        firstSeen == SelectSeq([k \in 1..Len(live) |-> k],
                        LAMBDA k : /\ live[k].gameName # ""
                                   /\ \A j \in 1..(k - 1) :
                                         live[j].gameName # live[k].gameName)
        names == entries([k \in 1..Len(firstSeen) |-> live[firstSeen[k]].gameName])
        count(g) == Cardinality({k \in 1..Len(live) : live[k].gameName = g})
    IN  slice(values(sortPairs([k \in 1..Len(names) |->
                  <<count(names[k]), [game |-> names[k], count |-> count(names[k])]>>])),
              0, TopCount)

\* a viewer total taken over every record, live or not
totalLiveViewersOfAll(streamers) ==
    sum([k \in 1..Len(streamers) |-> OrZero(streamers[k].viewers)])

\* lines 179-182 and 335-338: the viewers of the live records, none as 0
totalLiveViewers(streamers) ==
    LET live == SelectSeq(streamers, LAMBDA x : x.isLive)
    IN  sum([k \in 1..Len(live) |-> OrZero(live[k].viewers)])

\* calculateStatistics(streamers) of class v
calculateStatistics(streamers, v) ==
    LET totalStreamers == Len(streamers)
        live == SelectSeq(streamers, LAMBDA x : x.isLive)
        partners == SelectSeq(streamers, LAMBDA x : x.broadcasterType = "partner")
        affiliates == SelectSeq(streamers, LAMBDA x : x.broadcasterType = "affiliate")
        totalViews ==
            sum([k \in 1..Len(streamers) |->
                    IF v = "stats" THEN OrZero(streamers[k].viewCount)
                    ELSE streamers[k].viewCount])
        averageViews ==
            IF v = "stats"
            THEN (IF totalStreamers > 0 THEN Quotient(totalViews, totalStreamers)
                  ELSE Quotient(0, 1))
            ELSE Quotient(totalViews, totalStreamers)
    IN  [totalStreamers |-> totalStreamers,
         liveStreamers |-> Len(live),
         partners |-> Len(partners),
         affiliates |-> Len(affiliates),
         totalViews |-> totalViews,
         averageViews |-> averageViews,
         topStreamers |-> topStreamers(streamers, v),
         liveStreamersData |-> sortedLiveStreamers(streamers, v),
         popularGames |-> popularGames(streamers, v),
         totalLiveViewers |-> totalLiveViewers(streamers)]

Stats == variant \in {"stats", "statsLegacy"}

InitStats ==
    /\ variant \in {"stats", "statsLegacy"}
    /\ logins = <<>>
    /\ absent = {}
    /\ expiresIn = ShortLife
    /\ Fresh
    /\ input \in StatsInputs(variant)
    /\ output = <<>>
    /\ streamersTable = <<>>

\* the caller hands the list to calculateStatistics and gets the statistics
CalculateStatistics ==
    /\ Stats
    /\ callPc = "idle"
    /\ output' = calculateStatistics(input, variant)
    /\ callPc' = "done"
    /\ UNCHANGED <<variant, logins, absent, expiresIn, input, now, tokenSlot, i,
                   next, paceAt, results, task, exchanges, dataRequests, issued,
                   authRejected, mustBeAfter, faults, victim, bulkState, cuts,
                   streamersTable>>

NextStats == CalculateStatistics

SpecStats == InitStats /\ [][NextStats]_vars

(***************************************************************************)
(* The HTTP surface: the handlers of TwitchController and KickController,   *)
(* with errorHandler as the last middleware, over the streamers table of    *)
(* DatabaseService.  A handler runs from the request to the response; what  *)
(* the database and the platform service answer is its input.               *)
(***************************************************************************)

\* the streamers table when the server starts; "" is NULL
Rows ==
    <<[TwitchNickname |-> "a", KickNickname |-> "", Avatar |-> ""],
      [TwitchNickname |-> "B", KickNickname |-> "k", Avatar |-> ""]>>

Avatars == {"", "p", "q"}        \* profile pictures upstream; "" is none
Viewers == {50, 70}              \* viewer counts of the live streams
Params == {"", "a", "b", "zz"}   \* req.params.login / req.params.streamerName

\* columnName of getStreamerNames and updateStreamerAvatar
columnName(platform) ==
    IF platform = "twitch" THEN "TwitchNickname" ELSE "KickNickname"

\* DatabaseService.getStreamerNames; ok: the query succeeds
getStreamerNames(table, platform, ok) ==
    IF ~ok THEN <<>>
    ELSE LET rows == SelectSeq(table, LAMBDA r : r[columnName(platform)] # "")
         IN  [k \in 1..Len(rows) |-> rows[k][columnName(platform)]]

\* DatabaseService.updateStreamerAvatar; ok: the query succeeds
updateStreamerAvatar(table, login, avatarUrl, platform, ok) ==
    IF ~ok THEN table
    ELSE [k \in 1..Len(table) |->
            IF /\ table[k][columnName(platform)] # ""
               /\ toLowerCase(table[k][columnName(platform)]) = toLowerCase(login)
            THEN [table[k] EXCEPT !.Avatar = avatarUrl]
            ELSE table[k]]

\* for (const streamer of streamers) if (streamer.avatar) await update...
RECURSIVE updateAvatars(_, _, _)
updateAvatars(table, records, ok) ==
    IF Len(records) = 0 THEN table
    ELSE LET streamer == Head(records)
         IN  updateAvatars(
                 IF streamer.avatar # ""
                 THEN updateStreamerAvatar(table, streamer.login, streamer.avatar,
                                           "twitch", ok)
                 ELSE table,
                 Tail(records), ok)

\* what the platform may report of one name: nothing, or a record
Reports ==
    {[found |-> FALSE, avatar |-> "", isLive |-> FALSE, viewers |-> Null]}
    \cup [found : {TRUE}, avatar : Avatars, isLive : {FALSE}, viewers : {Null}]
    \cup [found : {TRUE}, avatar : Avatars, isLive : {TRUE}, viewers : Viewers]

\* the lists getStreamersInfo(names) may resolve to
StreamersInfo(names) ==
    {LET found == SelectSeq([k \in 1..Len(names) |-> k], LAMBDA k : f[k].found)
     IN  [j \in 1..Len(found) |->
            [login |-> toLowerCase(names[found[j]]),
             avatar |-> f[found[j]].avatar,
             isLive |-> f[found[j]].isLive,
             viewers |-> f[found[j]].viewers]]
     : f \in [1..Len(names) -> Reports]}

NoError == [name |-> "", status |-> Null, message |-> ""]

\* what a handler may catch: a TwitchApiError with or without a status, or
\* another Error, which may carry a status of its own
Errors ==
    [name : {"TwitchApiError"}, status : {Null, 400, 401},
     message : {"Authentication with Twitch API failed."}]
    \cup [name : {"Error"}, status : {Null, 404}, message : {"connect ECONNREFUSED"}]

\* how the call of the Twitch service ends: it returns a list or it throws
Outcomes(names) ==
    {[error |-> NoError, value |-> v] : v \in StreamersInfo(names)}
    \cup IF Len(names) = 0 THEN {}
         ELSE {[error |-> e, value |-> <<>>] : e \in Errors}

\* res before anything is written to it
NoResponse ==
    [headersSent |-> FALSE, status |-> 0, field |-> "", text |-> "", data |-> <<>>]

\* res.status(status).json({ [field]: text })
json(status, field, text) ==
    [headersSent |-> TRUE, status |-> status, field |-> field, text |-> text,
     data |-> <<>>]

\* res.status(200).json(records) and res.json(records): the logins are kept
jsonRecords(field, records) ==
    [headersSent |-> TRUE, status |-> 200, field |-> field, text |-> "",
     data |-> [k \in 1..Len(records) |-> records[k].login]]

\* errorHandler of the middleware; next(err) leaves a response already begun
errorHandler(err, res) ==
    IF res.headersSent THEN res
    ELSE IF err.name = "TwitchApiError"
    THEN json(IF err.status = Null \/ err.status = 0 THEN 500 ELSE err.status,
              "message", err.message)
    ELSE json(500, "message", "Something went wrong on the server")

\* allStreamers.filter(s => s.isLive), sorted by (b.viewers || 0) - (a.viewers || 0)
liveByViewers(records) ==
    LET live == SelectSeq(records, LAMBDA x : x.isLive)
    IN  values(sortPairs([k \in 1..Len(live) |->
                             <<OrZero(live[k].viewers), live[k]>>]))

Http == variant = "http"

NoRequest == [endpoint |-> "", param |-> "", error |-> NoError]

InitHttp ==
    /\ variant = "http"
    /\ logins = <<>>
    /\ absent = {}
    /\ expiresIn = ShortLife
    /\ Fresh
    /\ input = NoRequest
    /\ output = NoResponse
    /\ streamersTable = Rows

\* the services behind the controllers are not part of this model
httpFrame ==
    <<variant, logins, absent, expiresIn, now, tokenSlot, callPc, i, next,
      paceAt, results, task, exchanges, dataRequests, issued, authRejected,
      mustBeAfter, faults, victim, bulkState, cuts>>

\* TwitchController.getAllStreamers
GetAllStreamers(namesOk, updatesOk) ==
    /\ Http
    /\ \E r \in Outcomes(getStreamerNames(streamersTable, "twitch", namesOk)) :
          /\ input' = [endpoint |-> "getAllStreamers", param |-> "", error |-> r.error]
          /\ IF r.error # NoError
             THEN /\ output' = errorHandler(r.error, NoResponse)
                  /\ UNCHANGED streamersTable
             ELSE /\ streamersTable' = updateAvatars(streamersTable, r.value, updatesOk)
                  /\ output' = jsonRecords("", r.value)
    /\ UNCHANGED httpFrame

\* TwitchController.getLiveStreamers
GetLiveStreamers(namesOk) ==
    /\ Http
    /\ \E r \in Outcomes(getStreamerNames(streamersTable, "twitch", namesOk)) :
          /\ input' = [endpoint |-> "getLiveStreamers", param |-> "", error |-> r.error]
          /\ output' = IF r.error # NoError
                       THEN errorHandler(r.error, NoResponse)
                       ELSE jsonRecords("", liveByViewers(r.value))
    /\ UNCHANGED <<httpFrame, streamersTable>>

\* TwitchController.getStreamersFromConfig
GetStreamersFromConfig(namesOk) ==
    /\ Http
    /\ input' = [endpoint |-> "getStreamersFromConfig", param |-> "", error |-> NoError]
    /\ output' =
          LET names == getStreamerNames(streamersTable, "twitch", namesOk)
          IN  jsonRecords("streamers_from_config",
                          [k \in 1..Len(names) |-> [login |-> names[k]]])
    /\ UNCHANGED <<httpFrame, streamersTable>>

\* TwitchController.getStreamer
GetStreamer(login, updatesOk) ==
    /\ Http
    /\ IF login = ""
       THEN /\ input' = [endpoint |-> "getStreamer", param |-> login, error |-> NoError]
            /\ output' = json(400, "error", "Streamer login is required")
            /\ UNCHANGED streamersTable
       ELSE \E r \in Outcomes(<<login>>) :
              /\ input' = [endpoint |-> "getStreamer", param |-> login, error |-> r.error]
              /\ IF r.error # NoError
                 THEN /\ output' = errorHandler(r.error, NoResponse)
                      /\ UNCHANGED streamersTable
                 ELSE IF Len(r.value) > 0
                 THEN /\ streamersTable' =
                            updateAvatars(streamersTable, <<r.value[1]>>, updatesOk)
                      /\ output' = jsonRecords("", <<r.value[1]>>)
                 ELSE /\ output' = json(404, "error", "Streamer not found")
                      /\ UNCHANGED streamersTable
    /\ UNCHANGED httpFrame

\* KickController.getStreamer; the two lookups of KickService never throw
KickGetStreamer(streamerName) ==
    /\ Http
    /\ input' = [endpoint |-> "kick.getStreamer", param |-> streamerName,
                 error |-> NoError]
    /\ IF streamerName = ""
       THEN output' = json(400, "message", "Streamer name is required.")
       ELSE \E v \in StreamersInfo(<<streamerName>>) :
              output' = IF Len(v) = 0
                        THEN json(404, "message", "Streamer not found on Kick.")
                        ELSE jsonRecords("", v)
    /\ UNCHANGED <<httpFrame, streamersTable>>

\* KickController.getStreamers
KickGetStreamers(namesOk) ==
    /\ Http
    /\ input' = [endpoint |-> "kick.getStreamers", param |-> "", error |-> NoError]
    /\ \E v \in StreamersInfo(getStreamerNames(streamersTable, "kick", namesOk)) :
          output' = jsonRecords("", v)
    /\ UNCHANGED <<httpFrame, streamersTable>>

\* KickController.getLiveStreamers
KickGetLiveStreamers(namesOk) ==
    /\ Http
    /\ input' = [endpoint |-> "kick.getLiveStreamers", param |-> "", error |-> NoError]
    /\ \E v \in StreamersInfo(getStreamerNames(streamersTable, "kick", namesOk)) :
          output' = jsonRecords("", SelectSeq(v, LAMBDA x : x.isLive))
    /\ UNCHANGED <<httpFrame, streamersTable>>

NextHttp ==
    \/ \E namesOk \in BOOLEAN, updatesOk \in BOOLEAN : GetAllStreamers(namesOk, updatesOk)
    \/ \E namesOk \in BOOLEAN : GetLiveStreamers(namesOk)
    \/ \E namesOk \in BOOLEAN : GetStreamersFromConfig(namesOk)
    \/ \E login \in Params, updatesOk \in BOOLEAN : GetStreamer(login, updatesOk)
    \/ \E streamerName \in Params : KickGetStreamer(streamerName)
    \/ \E namesOk \in BOOLEAN : KickGetStreamers(namesOk)
    \/ \E namesOk \in BOOLEAN : KickGetLiveStreamers(namesOk)

SpecHttp == InitHttp /\ [][NextHttp]_vars

(***************************************************************************)
(* Configuration loading: getConfig of config/index.ts, which reads the    *)
(* credentials from the environment and the roster from the database, and  *)
(* the configuration module that reads both from the environment.          *)
(***************************************************************************)

\* values of TWITCH_CLIENT_ID and TWITCH_CLIENT_SECRET; "" is unset or empty
ClientIds == {"", "<your_twitch_client_id>", "id"}
ClientSecrets == {"", "<your_twitch_client_secret>", "secret"}

\* values of STREAMERS_TO_CHECK, character by character: unset, "", "a,b"
StreamersToCheck ==
    {[set |-> FALSE, value |-> <<>>], [set |-> TRUE, value |-> <<>>],
     [set |-> TRUE, value |-> <<"a", ",", "b">>]}

\* String.prototype.split(','): the pieces between the commas
RECURSIVE split(_)
split(str) ==
    IF \A k \in 1..Len(str) : str[k] # "," THEN <<str>>
    ELSE LET k == CHOOSE j \in 1..Len(str) :
                      str[j] = "," /\ \A h \in 1..(j - 1) : str[h] # ","
         IN  <<SubSeq(str, 1, k - 1)>> \o split(SubSeq(str, k + 1, Len(str)))

\* the environment and the database the process starts in
Environments(v) ==
    [TWITCH_CLIENT_ID : ClientIds, TWITCH_CLIENT_SECRET : ClientSecrets,
     STREAMERS_TO_CHECK : IF v = "configEnv" THEN StreamersToCheck
                          ELSE {[set |-> FALSE, value |-> <<>>]},
     dbUp : IF v = "config" THEN BOOLEAN ELSE {FALSE}]

\* the streamers tables the database may hold
Tables(v) ==
    IF v = "configEnv" THEN {<<>>}
    ELSE {[k \in 1..Len(names) |->
             [TwitchNickname |-> names[k], KickNickname |-> "", Avatar |-> ""]]
          : names \in SeqsUpTo({"a", "B"}, 2)}

\* nothing is loaded yet
NoConfig ==
    [queries |-> 0, error |-> "", returned |-> FALSE, streamersToCheck |-> <<>>]

Config == variant \in {"config", "configEnv"}

InitConfig ==
    /\ variant \in {"config", "configEnv"}
    /\ logins = <<>>
    /\ absent = {}
    /\ expiresIn = ShortLife
    /\ Fresh
    /\ input \in Environments(variant)
    /\ output = NoConfig
    /\ streamersTable \in Tables(variant)

configFrame ==
    <<variant, logins, absent, expiresIn, input, streamersTable, now, tokenSlot,
      i, next, paceAt, results, task, exchanges, dataRequests, issued,
      authRejected, mustBeAfter, faults, victim, bulkState, cuts>>

\* getConfig up to its await: the credentials are validated, then
\* loadStreamers sends its query
GetConfig ==
    /\ variant = "config"
    /\ callPc = "idle"
    /\ IF \/ input.TWITCH_CLIENT_ID \in {"", "<your_twitch_client_id>"}
          \/ input.TWITCH_CLIENT_SECRET \in {"", "<your_twitch_client_secret>"}
       THEN /\ callPc' = "raised"
            /\ output' = [output EXCEPT !.error = "ConfigurationError"]
       ELSE /\ callPc' = "query"
            /\ output' = [output EXCEPT !.queries = @ + 1]
    /\ UNCHANGED configFrame

\* loadStreamers: the query is answered with the rows or fails, and getConfig
\* returns the configuration
LoadStreamersAnswered ==
    /\ variant = "config"
    /\ callPc = "query"
    /\ callPc' = "done"
    /\ output' =
          [output EXCEPT
              !.returned = TRUE,
              !.streamersToCheck =
                  IF input.dbUp
                  THEN [k \in 1..Len(streamersTable) |->
                           streamersTable[k].TwitchNickname]
                  ELSE <<>>]
    /\ UNCHANGED configFrame

\* the configuration module is loaded: the object is built and validated
LoadConfigModule ==
    /\ variant = "configEnv"
    /\ callPc = "idle"
    /\ IF input.TWITCH_CLIENT_ID = "" \/ input.TWITCH_CLIENT_SECRET = ""
       THEN /\ callPc' = "raised"
            /\ output' = [output EXCEPT !.error = "Error"]
       ELSE /\ callPc' = "done"
            /\ output' =
                  [output EXCEPT
                      !.returned = TRUE,
                      !.streamersToCheck =
                          IF input.STREAMERS_TO_CHECK.set
                          THEN split(input.STREAMERS_TO_CHECK.value)
                          ELSE <<>>]
    /\ UNCHANGED configFrame

NextConfig ==
    \/ GetConfig
    \/ LoadStreamersAnswered
    \/ LoadConfigModule

SpecConfig == InitConfig /\ [][NextConfig]_vars

(***************************************************************************)
(* Properties.                                                             *)
(***************************************************************************)

\* positions of the identity list whose user lookup found the user
Found == {p \in 1..Len(logins) : task[p].uRes = "found"}

\* logins (lower case) the identity list names
Asked == {toLowerCase(logins[p]) : p \in 1..Len(logins)}

\* logins of the records of a result list
LoginsOf(rs) == {rs[k].login : k \in 1..Len(rs)}

Ended == callPc \in {"done", "raised"}

\* the token endpoint rejects, in this step, the exchange lookup p waits for
RejectedFor(p) ==
    /\ variant = "perIdentity" /\ task[p].pc = "tok" /\ task'[p] # task[p]
    /\ faults' = faults + 1 /\ authRejected'

\* the token endpoint rejects, in this step, the exchange of a bulk service
RejectedBulk == Bulk /\ callPc = "tok" /\ faults' = faults + 1 /\ authRejected'

\* C2 as stated: a call during which the token endpoint answered 400 or 401
\* ends by raising an error, never by returning a list.
C2_RejectionIsFatal == (authRejected /\ Ended) => callPc = "raised"

\* C2, amended: the rejected exchange is not repeated, and it is fatal only
\* in the cached bulk service.  Per-identity service: the lookup that asked
\* for the token ends at once (null user, or a record reported offline), no
\* new exchange leaves for it, and the call goes on to return a list.
\* Uncached bulk service: the call returns the empty list.  Cached bulk
\* service: the call raises.
C2_RejectionAbsorbed ==
    /\ [](variant = "perIdentity" => callPc # "raised")
    /\ [][\A p \in Pos : RejectedFor(p) =>
             /\ task'[p].pc = "done"
             /\ exchanges' = exchanges
             /\ callPc' = callPc
             /\ IF task[p].uRes = "pending"
                THEN task'[p].value = <<>>
                ELSE task'[p].value[1].isLive = FALSE]_vars
    /\ [][RejectedBulk =>
             /\ exchanges' = exchanges
             /\ IF variant = "bulk"
                THEN callPc' = "done" /\ results' = <<>>
                ELSE callPc' = "raised"]_vars

\* C2 witness: the per-identity service returned two of three identities
\* although the token endpoint rejected the credentials for the third
C2_Witness ==
    /\ variant = "perIdentity" /\ callPc = "done" /\ authRejected
    /\ Len(logins) = 3 /\ Len(results) = 2

\* C3 as stated: a data request that is re-sent after a 401 carries a newly
\* acquired token, that is, a token other than the one the 401 rejected.
C3_RetryCarriesNewToken ==
    \A p \in Pos :
        (variant = "perIdentity" /\ task[p].pc = "req" /\ task[p].rejected # Null)
            => task[p].headers # task[p].rejected

\* the token and the expiry the service holds (Null: none)
StoredToken ==
    IF variant = "cached"
    THEN IF TokenKey \in DOMAIN cache THEN cache[TokenKey].value[1] ELSE Null
    ELSE accessToken

StoredExpiryOf ==
    IF variant = "cached"
    THEN IF TokenKey \in DOMAIN cache THEN cache[TokenKey].t ELSE Null
    ELSE tokenExpiresAt

\* at time t the stored token is inside the reuse window of the claim
InReuseWindow(t) ==
    /\ StoredToken # Null /\ StoredExpiryOf # Null
    /\ t < StoredExpiryOf - SafetyBufferMs

\* this step calls getAccessToken for a lookup of position p (per-identity
\* service: a makeRequest starts)
TokenAsked(p) ==
    /\ variant = "perIdentity"
    /\ task'[p].tokenPath # "none"
    /\ task[p].pc = "idle" \/ task'[p].phase # task[p].phase

\* this step calls getAccessToken for a fetch call of a bulk service
BulkTokenAsked == Bulk /\ calls' = calls + 1 /\ callPc' \in {"await", "tok"}

\* C4: a getAccessToken call made while a token is stored and the clock is
\* before the stored expiry minus 300 s returns the stored token without an
\* exchange: the request that follows carries the stored token, the number
\* of exchanges and the stored token and expiry are unchanged.
C4_TokenReuse ==
    [][/\ \A p \in Pos :
            (TokenAsked(p) /\ InReuseWindow(now')) =>
                /\ exchanges' = exchanges
                /\ task'[p].pc = "req" /\ task'[p].headers = StoredToken
                /\ UNCHANGED tokenSlot
       /\ (BulkTokenAsked /\ InReuseWindow(now')) =>
                /\ exchanges' = exchanges
                /\ callPc' = "await" /\ bulk'.headers = StoredToken
                /\ UNCHANGED <<tokenSlot, cache>>]_vars

\* C4 witness: the stream lookup of an identity is in flight with the token
\* the user lookup acquired: two getAccessToken calls, one exchange
C4_Witness ==
    /\ variant = "perIdentity" /\ Len(logins) = 1
    /\ task[1].pc = "req" /\ task[1].phase = "S" /\ task[1].tokenPath = "cached"
    /\ task[1].headers = accessToken
    /\ exchanges = 1 /\ dataRequests = 2

\* this step calls getAccessToken, for a lookup or for a bulk fetch call
AnyTokenAsked == BulkTokenAsked \/ \E p \in Pos : TokenAsked(p)

\* the token endpoint grants, in this step, the exchange lookup p waits for
GrantedFor(p) ==
    variant = "perIdentity" /\ task[p].pc = "tok" /\ task'[p].pc = "req"

\* the token endpoint grants, in this step, the exchange of a bulk service
GrantedBulk == Bulk /\ callPc = "tok" /\ callPc' = "await"

\* C5 as stated: a getAccessToken call made with a token stored and the clock
\* at or past the stored expiry minus the safety buffer performs an exchange.
C5_RefreshPastBuffer ==
    [][(AnyTokenAsked /\ StoredToken # Null
           /\ now' >= StoredExpiryOf - SafetyBufferMs)
          => exchanges' = exchanges + 1]_vars

\* C5, amended: the per-identity service refreshes once the clock is at or
\* past the stored expiry minus the buffer; the bulk services reuse the
\* stored token up to the stored expiry itself (uncached: while now is before
\* it; cached: while now is not after it) and refresh afterwards.  A refresh
\* is one exchange; its answer replaces the stored token by the new one and
\* the stored expiry by now + expires_in*1000 - buffer, and the request that
\* follows carries the new token.
C5_TokenRefresh ==
    [][/\ \A p \in Pos :
            /\ (TokenAsked(p) /\ StoredToken # Null
                   /\ now' >= StoredExpiryOf - SafetyBufferMs)
                  => exchanges' = exchanges + 1 /\ task'[p].pc = "tok"
            /\ GrantedFor(p)
                  => /\ exchanges' = exchanges
                     /\ StoredToken' = issued' /\ StoredToken' # StoredToken
                     /\ StoredExpiryOf' = now' + expiresIn * 1000 - SafetyBufferMs
                     /\ task'[p].headers = StoredToken'
       /\ (BulkTokenAsked /\ StoredToken # Null) =>
            IF now' < StoredExpiryOf \/ (variant = "cached" /\ now' = StoredExpiryOf)
            THEN exchanges' = exchanges /\ bulk'.headers = StoredToken
            ELSE exchanges' = exchanges + 1 /\ callPc' = "tok"
       /\ GrantedBulk
            => /\ exchanges' = exchanges
               /\ StoredToken' = issued' /\ StoredToken' # StoredToken
               /\ StoredExpiryOf' = now' + expiresIn * 1000 - SafetyBufferMs
               /\ bulk'.headers = StoredToken']_vars

\* C5 witness: the stream lookup of an identity is in flight with the second
\* token, acquired because the first one had passed its reuse window
C5_Witness ==
    /\ variant = "perIdentity"
    /\ task[1].pc = "req" /\ task[1].tokenPath = "refresh"
    /\ exchanges = 2 /\ accessToken = 2 /\ task[1].headers = 2
    /\ tokenExpiresAt = now + expiresIn * 1000 - SafetyBufferMs

\* the 429 timer of lookup p fires in this step
Woke(p) == variant = "perIdentity" /\ task[p].pc = "sleep" /\ task'[p].pc # "sleep"

\* C6: a request answered 429 with budget left is re-sent only when the clock
\* has reached the reset time of the header (60 s after the answer if there
\* is no header); the re-sent request is the same request (same phase, same
\* headers) and is the next attempt, one more GET.  A call therefore ends no
\* earlier than the latest reset time it was told to wait for.
C6_RateLimitWait ==
    /\ []((variant = "perIdentity" /\ callPc = "done") => now >= mustBeAfter)
    /\ [][\A p \in Pos : Woke(p) =>
             /\ now' >= task[p].reset
             /\ task'[p].pc = "req"
             /\ task'[p].attempt = task[p].attempt + 1
             /\ task'[p].gets = task[p].gets + 1
             /\ task'[p].phase = task[p].phase
             /\ task'[p].headers = task[p].headers
             /\ dataRequests' = dataRequests + 1]_vars

\* C6 witness: one identity, one 429 announcing a reset 5 s ahead, answered
\* on the retry: the call returned the record, at least 5 s after it began,
\* having sent three GETs (user lookup twice, stream lookup once)
C6_Witness ==
    /\ variant = "perIdentity" /\ callPc = "done" /\ Len(logins) = 1
    /\ faults = 1 /\ mustBeAfter = Epoch0 + 5000
    /\ now >= Epoch0 + 5000
    /\ Len(results) = 1 /\ dataRequests = 3

\* C7: whatever the upstream answers, one makeRequest sends at most 3 GETs:
\* its attempt number never exceeds 3, every GET it sends is counted by the
\* attempt number whatever made the previous attempt fail (429, 401, 5xx,
\* network), and with its third GET failed it ends (its lookup is over).
C7_BoundedAttempts ==
    /\ [](\A p \in Pos :
            variant = "perIdentity" =>
                /\ task[p].gets <= 3 /\ task[p].attempt <= 3
                /\ task[p].pc \in {"req", "sleep"} => task[p].gets = task[p].attempt)
    /\ [][\A p \in Pos :
            (variant = "perIdentity" /\ task[p].pc = "req" /\ task[p].gets = 3
                /\ task'[p] # task[p] /\ faults' # faults)
              => task'[p].pc = "done"]_vars

\* C7 witness: one identity whose user lookup was rate limited once, failed
\* twice more and gave up after exactly three GETs
C7_Witness ==
    /\ variant = "perIdentity" /\ Len(logins) = 1
    /\ task[1].pc = "done" /\ task[1].uRes = "failed"
    /\ faults = 3 /\ mustBeAfter > 0
    /\ exchanges = 1 /\ dataRequests = 3

\* in this step the third GET of a makeRequest of lookup p fails
Exhausted(p) ==
    /\ variant = "perIdentity" /\ task[p].pc = "req" /\ task[p].gets = 3
    /\ faults' = faults + 1 /\ task'[p] # task[p]

\* in this step a data request of a bulk service fails
BulkDataFailed == Bulk /\ callPc = "await" /\ faults' = faults + 1

\* positions whose identity exists upstream and whose requests never failed
Spared == {p \in 1..Len(logins) : p # victim /\ toLowerCase(logins[p]) \notin absent}

\* per-identity service: an exhausted request ends its own lookup only (null
\* user, or a record reported offline), the call goes on and returns, without
\* raising, a list with a record for every other identity that exists
PerIdentityAbsorbs ==
    /\ [](variant = "perIdentity" => callPc # "raised")
    /\ []((variant = "perIdentity" /\ callPc = "done") =>
            /\ Len(results) >= Cardinality(Spared)
            /\ \A p \in Spared : toLowerCase(logins[p]) \in LoginsOf(results))
    /\ [][\A p \in Pos : Exhausted(p) =>
             /\ task'[p].pc = "done"
             /\ \A q \in Pos \ {p} : task'[q] = task[q]
             /\ callPc' = callPc /\ results' = results
             /\ IF task[p].phase = "U"
                THEN task'[p].value = <<>>
                ELSE task'[p].value[1].isLive = FALSE]_vars

\* C8 as stated: an exhausted data request costs only the identities of its
\* batch: the call does not raise, and the records gathered from the other
\* batches are returned.
C8_OnlyAffectedBatchDropped ==
    /\ PerIdentityAbsorbs
    /\ [][BulkDataFailed =>
             /\ callPc' # "raised"
             /\ callPc' = "done" => LoginsOf(results) \subseteq LoginsOf(results')]_vars

\* C8, amended: the per-identity service absorbs an exhausted request as
\* above.  The bulk services send every data request once; the first one that
\* fails ends the call and loses the records of every batch: the uncached
\* service returns the empty list, the cached service raises and caches
\* nothing.
C8_ExhaustionPerService ==
    /\ PerIdentityAbsorbs
    /\ [][BulkDataFailed =>
             /\ dataRequests' = dataRequests
             /\ IF variant = "bulk"
                THEN callPc' = "done" /\ results' = <<>>
                ELSE callPc' = "raised" /\ cache' = cache]_vars

\* C8 witness: four identities, the user lookup of the second one failed
\* three times, and the call returned the three others
C8_Witness ==
    /\ variant = "perIdentity" /\ callPc = "done" /\ Len(logins) = 4
    /\ victim = 2 /\ faults = 3 /\ task[2].uRes = "failed"
    /\ absent = {}
    /\ Len(results) = 3

\* C9: a service asked for the empty identity list sends nothing, neither a
\* token exchange nor a data request, never waits and never raises, and
\* every call returns the empty list.
C9_EmptyListNoNetwork ==
    Len(logins) = 0 =>
        /\ exchanges = 0 /\ dataRequests = 0
        /\ callPc \in {"idle", "done"}
        /\ callPc = "done" => results = <<>>
        /\ cache = EmptyCache

\* C9 witness: the cached bulk service has answered the empty list twice
C9_Witness ==
    /\ variant = "cached" /\ Len(logins) = 0
    /\ calls = 2 /\ callPc = "done" /\ results = <<>>
    /\ exchanges = 0 /\ dataRequests = 0

\* the batch size of the claim: 3 per-identity, 100 bulk
B == IF variant = "perIdentity" THEN 3 ELSE 100

\* ceil(n / b): the least m with m * b >= n
Ceil(n, b) == CHOOSE m \in 0..n : m * b >= n /\ (m = 0 \/ (m - 1) * b < n)

\* the batch loop has run to its end
LoopDone == callPc = "done" /\ i >= Len(logins)

\* C10: the k-th batch the loop cuts holds the identities at positions
\* (k-1)*B+1 .. min(k*B, n) in input order, so it has between 1 and B
\* identities and no position is in two batches; a loop that has run to its
\* end has cut exactly ceil(n/B) batches, which together are the whole list.
C10_BatchPartition ==
    variant # "kick" =>
        LET n == Len(logins)
        IN  /\ \A k \in 1..Len(cuts) :
                  /\ cuts[k] = [j \in 1..(Min(k * B, n) - (k - 1) * B) |->
                                   logins[(k - 1) * B + j]]
                  /\ 1 <= Len(cuts[k]) /\ Len(cuts[k]) <= B
            /\ Len(cuts) <= Ceil(n, B)
            /\ LoopDone => Len(cuts) = Ceil(n, B)
            /\ callPc \in {"spawn", "await", "pacing"} => Len(cuts) = (i \div B) + 1

\* C10 witness: the bulk service has fetched 101 identities in two batches,
\* the second one holding the last identity alone
C10_Witness ==
    /\ variant = "bulk" /\ Len(logins) = BATCH_SIZE + 1 /\ LoopDone
    /\ Len(cuts) = 2 /\ Len(cuts[1]) = BATCH_SIZE
    /\ cuts[2] = <<logins[BATCH_SIZE + 1]>>

\* lookups of the per-identity service with an upstream request outstanding:
\* a token exchange, a GET or a retry sleep
InFlight == {p \in Pos : task[p].pc \in {"tok", "req", "sleep"}}

\* the GETs of the current batch of a bulk service that are not answered yet
BulkPending == {w \in {"users", "streams"} : bulk[w] = "pending"}

\* C11: batches are processed one after the other.  Per-identity service:
\* every lookup with a request outstanding belongs to the batch the loop is
\* at, the lookups of later batches have not started, and while a batch is
\* being started or awaited the lookups of all earlier batches have returned.
\* Bulk services: the step that sends the two GETs of a further batch finds
\* at most one GET of the previous batch unanswered and is the successful
\* answer to it (the uncached service has none unanswered: it paced first).
C11_SequentialBatches ==
    /\ [](variant = "perIdentity" =>
            /\ InFlight \subseteq BatchPos(logins, i)
            /\ \A p \in 1..Len(logins) :
                   p > i + batchSize => task[p].pc = "idle"
            /\ callPc \in {"spawn", "await"} =>
                   \A p \in 1..i : task[p].pc = "done")
    /\ [][(variant = "perIdentity" /\ Len(cuts') = Len(cuts) + 1) =>
             /\ InFlight = {}
             /\ dataRequests' = dataRequests /\ exchanges' = exchanges]_vars
    /\ [][(Bulk /\ Len(cuts') = Len(cuts) + 1 /\ Len(cuts) >= 1) =>
             /\ Cardinality(BulkPending) <= 1
             /\ variant = "bulk" => BulkPending = {}
             /\ faults' = faults
             /\ Len(results') >= Len(results)
             /\ dataRequests' = dataRequests + 2]_vars

\* C11 witness: four identities; the first lookup of the first batch failed
\* twice and was retried, and the only lookup in flight is the one of the
\* second batch
C11_Witness ==
    /\ variant = "perIdentity" /\ Len(logins) = 4
    /\ victim = 1 /\ faults = 2
    /\ Len(cuts) = 2 /\ InFlight = {4}
    /\ \A p \in 1..3 : task[p].pc = "done"

\* identities with an upstream lookup outstanding
Busy ==
    IF variant = "kick"
    THEN {p \in 1..Len(logins) :
            callPc = "await"
            /\ (task[p].uRes = "pending" \/ task[p].sRes = "pending")}
    ELSE InFlight

\* C12 as stated: at no time are the lookups of more than B identities in
\* flight, B being the batch size of the clients that issue two calls per
\* identity (3).
C12_InFlightWithinBatch ==
    variant \in {"perIdentity", "kick"} => Cardinality(Busy) <= batchSize

\* the pacing delay of the service: 2 s per-identity, 1 s bulk
PacingMs == IF variant = "perIdentity" THEN BatchDelayMs ELSE BulkDelayMs

\* this step starts a batch other than the first one of its call
FurtherBatchStarts ==
    variant # "kick" /\ Len(cuts) >= 1 /\ Len(cuts') = Len(cuts) + 1

\* C13 as stated: every batch but the first starts out of a pacing sleep of
\* the fixed delay that began when the previous batch was done, and not
\* before the delay is over; a pacing sleep is only entered with a further
\* batch to come, so none follows the last batch.
C13_PacedBetweenBatches ==
    /\ [][FurtherBatchStarts =>
             /\ callPc = "pacing" /\ paceAt # Null
             /\ now' >= paceAt]_vars
    /\ [][(callPc # "pacing" /\ callPc' = "pacing") =>
             /\ paceAt' = now' + PacingMs
             /\ i + B < Len(logins)]_vars
    /\ [](callPc = "done" => paceAt = Null)

\* the records the service holds: returned, cached or produced by a lookup
Records ==
    {results[k] : k \in 1..Len(results)}
    \cup UNION {{t.value[k] : k \in 1..Len(t.value)} : t \in {task[p] : p \in Pos}}

\* C14 as stated: in every record a merge has produced, isLive is true
\* exactly when the record carries live-stream data, and the stream duration
\* is present exactly when isLive is true.
C14_LiveIffStreamData ==
    \A r \in Records :
        /\ r.isLive = r.streamData
        /\ r.streamDurationMinutes = r.isLive

\* the streams response has an entry for login u, compared in lower case
HasStream(u) == \E x \in input.streams : toLowerCase(x) = toLowerCase(u)

\* C15: the bulk merge returns one record per user profile of the users
\* response, in its order and under the login the profile has; the record is
\* live exactly when the streams response holds an entry whose login equals
\* the user's login once both are lowercased; a record that is not live has
\* no stream data (viewers, title, game); a stream whose login matches no
\* user profile yields no record.
C15_BulkMerge ==
    callPc = "done" =>
        /\ Len(output) = Len(input.users)
        /\ \A k \in 1..Len(output) :
              /\ output[k].login = input.users[k]
              /\ output[k].isLive = HasStream(input.users[k])
              /\ ~output[k].isLive => ~output[k].streamData
        /\ \A x \in input.streams :
              (\A k \in 1..Len(input.users) :
                    toLowerCase(input.users[k]) # toLowerCase(x))
                => \A k \in 1..Len(output) :
                      toLowerCase(output[k].login) # toLowerCase(x)

\* C15 witness: users B and a, streams b and D: B is live through the match
\* in lower case, a is not live, and the stream of D yields no record
C15_Witness ==
    /\ callPc = "done"
    /\ input = [users |-> <<"B", "a">>, streams |-> {"b", "D"}]
    /\ Len(output) = 2
    /\ output[1].login = "B" /\ output[1].isLive
    /\ output[2].login = "a" /\ ~output[2].isLive /\ ~output[2].streamData

\* the services that keep a result cache
Caching == variant \in {"cached", "kick"}

\* the key under which the running service caches the result for `logins`
ResultKey ==
    cacheKey(IF variant = "kick" THEN "kick_streamers_" ELSE "streamers_", logins)

\* a getStreamersInfo call of a caching service starts in this step
CachingCallStarts == Caching /\ calls' = calls + 1

KeyPrefix == IF variant = "kick" THEN "kick_streamers_" ELSE "streamers_"

\* the keys of the unexpired results stored for a list that equals `logins`
\* once both are lowercased
FreshForSameIdentities(t) ==
    {k \in {cacheKey(KeyPrefix, l) : l \in Respellings(logins)} :
        k \in DOMAIN cache /\ t < cache[k].t}

\* C17 as stated: a call for a list that equals, after lowercasing, a list
\* whose result was stored less than the TTL ago is a cache hit: it returns
\* that result and sends nothing upstream.
C17_KeyIsNormalized ==
    [][(CachingCallStarts /\ FreshForSameIdentities(now') # {}) =>
          /\ callPc' = "done"
          /\ \E k \in FreshForSameIdentities(now') : results' = cache[k].value
          /\ exchanges' = exchanges /\ dataRequests' = dataRequests]_vars

\* calculateStatistics has returned
Summarized == Stats /\ callPc = "done"

\* C18 as stated: for the empty list calculateStatistics returns, without
\* failing, averageViews = 0, every count 0 and every list empty.
C18_EmptyListAverageZero ==
    (Summarized /\ Len(input) = 0) =>
        /\ output.averageViews = Quotient(0, 1)
        /\ output.totalStreamers = 0 /\ output.liveStreamers = 0
        /\ output.partners = 0 /\ output.affiliates = 0
        /\ output.totalViews = 0 /\ output.totalLiveViewers = 0
        /\ output.topStreamers = <<>>

\* the sum of f[k] over the positions k of S
RECURSIVE Total(_, _)
Total(f, S) ==
    IF S = {} THEN 0
    ELSE LET k == CHOOSE x \in S : TRUE IN f[k] + Total(f, S \ {k})

\* positions of the input list whose record satisfies a test
LivePositions == {k \in 1..Len(input) : input[k].isLive}
TierPositions(tier) == {k \in 1..Len(input) : input[k].broadcasterType = tier}

\* C19: for a list of n records calculateStatistics returns totalStreamers =
\* n, liveStreamers = the number of records with isLive, partners and
\* affiliates = the number of records of that tier, totalViews = the sum of
\* the view counts with an absent count taken as 0, averageViews =
\* totalViews / n when n > 0 (records without a count are part of n), and
\* totalLiveViewers = the sum of the viewers of the live records only.
C19_Summary ==
    Summarized =>
        LET n == Len(input)
            views == [k \in 1..n |-> OrZero(input[k].viewCount)]
            viewers == [k \in 1..n |-> OrZero(input[k].viewers)]
        IN  /\ output.totalStreamers = n
            /\ output.liveStreamers = Cardinality(LivePositions)
            /\ output.partners = Cardinality(TierPositions("partner"))
            /\ output.affiliates = Cardinality(TierPositions("affiliate"))
            /\ output.totalViews = Total(views, 1..n)
            /\ n > 0 =>
                  /\ output.averageViews[2] > 0
                  /\ output.averageViews[1] * n
                        = output.totalViews * output.averageViews[2]
            /\ output.totalLiveViewers = Total(viewers, LivePositions)

\* C19 witness: the later class summarized a, offline with 100 views and 50
\* viewers on record, and b, live with 300 views and 50 viewers: two
\* streamers, one live, 400 views, 200 on average, 50 live viewers
C19_Witness ==
    /\ variant = "stats" /\ callPc = "done"
    /\ Len(input) = 2
    /\ input[1].viewCount = 100 /\ ~input[1].isLive /\ input[1].viewers = 50
    /\ input[2].viewCount = 300 /\ input[2].isLive /\ input[2].viewers = 50
    /\ output.totalStreamers = 2 /\ output.liveStreamers = 1
    /\ output.totalViews = 400 /\ output.averageViews = <<200, 1>>
    /\ output.totalLiveViewers = 50

\* the view count by which the record at position k of the input is ranked
Views(k) == OrZero(input[k].viewCount)

\* the record at position a comes before the one at position b in the
\* descending stable order
Precedes(a, b) == Views(a) > Views(b) \/ (Views(a) = Views(b) /\ a < b)

\* positions of the records topStreamers ranks: those with a view count (the
\* earlier class ranks every record it is given)
Counted == {k \in 1..Len(input) : variant = "statsLegacy" \/ input[k].viewCount # Null}

\* topStreamers is the first min(5, |S|) records of the descending stable
\* order of the records at the positions S
TopOf(S) ==
    LET top == output.topStreamers
        ids == {top[k].id : k \in 1..Len(top)}
    IN  /\ Len(top) = Min(5, Cardinality(S))
        /\ \A k \in 1..Len(top) : top[k].id \in S /\ top[k] = input[top[k].id]
        /\ \A k \in 1..(Len(top) - 1) : Precedes(top[k].id, top[k + 1].id)
        /\ \A j \in S \ ids : \A k \in 1..Len(top) : Precedes(top[k].id, j)

\* C20 as stated: topStreamers is the whole input list sorted descending by
\* view count, stable on ties, and cut to 5: min(5, n) records, none left out
\* that ranks before one taken.
C20_TopOfAll == Summarized => TopOf(1..Len(input))

\* C20, amended: the later class first drops the records that have no view
\* count; topStreamers is the remaining records sorted descending by view
\* count, stable on ties, and cut to 5.  It holds min(5, m) records, m being
\* the number of records with a view count, and no record with a view count
\* is left out that ranks before one taken.  The earlier class, whose
\* records all carry a count, ranks the whole list.
C20_TopOfCounted == Summarized => TopOf(Counted)

\* C20 witness: seven records, the first without a view count; of the six
\* others the three with 300 views come first in input order, then the first
\* two of the three with 100 views, and the last one is cut
C20_Witness ==
    /\ variant = "stats" /\ callPc = "done" /\ Len(input) = 7
    /\ [k \in 1..7 |-> input[k].viewCount] = <<Null, 100, 300, 100, 300, 300, 100>>
    /\ [k \in 1..Len(output.topStreamers) |-> output.topStreamers[k].id]
          = <<3, 5, 6, 2, 4>>

\* the ids of the records of a list, in its order
Ids(l) == [k \in 1..Len(l) |-> l[k].id]

\* liveStreamersData holds, once each, the records at the positions S and
\* no other, in descending order of viewers, none taken as 0
LiveDataIs(S) ==
    LET data == output.liveStreamersData
    IN  /\ Len(data) = Cardinality(S)
        /\ {data[k].id : k \in 1..Len(data)} = S
        /\ \A k \in 1..Len(data) : data[k] = input[data[k].id]
        /\ \A k \in 1..(Len(data) - 1) :
              OrZero(data[k].viewers) >= OrZero(data[k + 1].viewers)

\* C21 as stated: liveStreamersData holds exactly the records with isLive,
\* ordered by descending viewer count, an absent count being taken as 0.
C21_LiveDataAllLive == Summarized => LiveDataIs(LivePositions)

\* C21, amended: the later class leaves out the live records whose viewer
\* count is null; liveStreamersData holds exactly the live records that have
\* a viewer count, ordered by descending viewer count.  The earlier class
\* keeps every live record, a missing viewer count being taken as 0.
C21_LiveDataWithViewers ==
    Summarized =>
        LiveDataIs({k \in LivePositions :
                      variant = "statsLegacy" \/ input[k].viewers # Null})

\* C21 witness: three live records with 50 viewers, no viewer count and 70
\* viewers; the later class returns the third and the first
C21_Witness ==
    /\ variant = "stats" /\ callPc = "done" /\ Len(input) = 3
    /\ \A k \in 1..3 : input[k].isLive
    /\ [k \in 1..3 |-> input[k].viewers] = <<50, Null, 70>>
    /\ Ids(output.liveStreamersData) = <<3, 1>>

\* the games of the live records, and how many live records play game g
LiveGames == {input[k].gameName : k \in LivePositions} \ {""}
Playing(g) == {k \in LivePositions : input[k].gameName = g}

\* the first position of the input at which game g is seen on a live record
FirstInInput(g) == CHOOSE k \in Playing(g) : \A j \in Playing(g) : k <= j

\* the first position of liveStreamersData at which game g is seen
FirstInLiveData(g) ==
    LET data == output.liveStreamersData
        at == {k \in 1..Len(data) : data[k].gameName = g}
    IN  CHOOSE k \in at : \A j \in at : k <= j

\* game a is seen before game b in the input
SeenBefore(a, b) == FirstInInput(a) < FirstInInput(b)

\* the key of game a comes before the key of game b in the frequency object:
\* a name that reads as an array index comes before the other names; else the
\* game met first comes first, the live records being met in input order by
\* the later class and in the order of liveStreamersData by the earlier one
KeyBefore(a, b) ==
    IF (a = "2048") # (b = "2048") THEN a = "2048"
    ELSE IF variant = "stats" THEN FirstInInput(a) < FirstInInput(b)
    ELSE FirstInLiveData(a) < FirstInLiveData(b)

\* popularGames is the first min(5, number of games) entries of the games of
\* the live records with their counts, in descending order of count, the
\* games of equal count being in the order Before
PopularGamesBy(Before(_, _)) ==
    LET pg == output.popularGames
        taken == {pg[k].game : k \in 1..Len(pg)}
        Ranked(a, b) ==
            \/ Cardinality(Playing(a)) > Cardinality(Playing(b))
            \/ Cardinality(Playing(a)) = Cardinality(Playing(b)) /\ Before(a, b)
    IN  /\ Len(pg) = Min(5, Cardinality(LiveGames))
        /\ \A k \in 1..Len(pg) :
              /\ pg[k].game \in LiveGames
              /\ pg[k].count = Cardinality(Playing(pg[k].game))
        /\ \A k \in 1..(Len(pg) - 1) : Ranked(pg[k].game, pg[k + 1].game)
        /\ \A g \in LiveGames \ taken : \A k \in 1..Len(pg) : Ranked(pg[k].game, g)

\* C22 as stated: popularGames counts the game names of the live records
\* only, each count being the number of live records with that game; the
\* entries are in descending order of count, games of equal count in the
\* order in which they are first seen in the input; at most 5 are returned.
C22_TiesByFirstSeen == Summarized => PopularGamesBy(SeenBefore)

\* C22, amended: counts, descending order and the cut to 5 are as stated;
\* games of equal count are in the key order of the frequency object: a game
\* name that reads as an array index comes first, and the other games follow
\* in the order in which the live records are met, which is the input order
\* in the later class and the order of descending viewers in the earlier
\* class (whose live list has been sorted in place by then).
C22_TiesByKeyOrder == Summarized => PopularGamesBy(KeyBefore)

\* C22 witness: the earlier class is given x with 50 viewers and then y with
\* 70 viewers, both live: y comes first
C22_Witness ==
    /\ variant = "statsLegacy" /\ callPc = "done" /\ Len(input) = 2
    /\ input[1].isLive /\ input[1].viewers = 50 /\ input[1].gameName = "x"
    /\ input[2].isLive /\ input[2].viewers = 70 /\ input[2].gameName = "y"
    /\ output.popularGames
          = <<[game |-> "y", count |-> 1], [game |-> "x", count |-> 1]>>

\* a response has been sent for the request in `input`
Answered == Http /\ output.headersSent

\* C23: every error response of the HTTP surface, from the error handler and
\* from the controllers of both platforms, is JSON with an HTTP status and a
\* `message` field; a TwitchApiError is answered with its own status (500
\* when it has none) and its message, any other error with status 500.
C23_ErrorsCarryMessage ==
    Answered =>
        /\ output.status >= 400 => output.field = "message"
        /\ input.error.name = "TwitchApiError" =>
              /\ output.status = IF input.error.status = Null THEN 500
                                 ELSE input.error.status
              /\ output.text = input.error.message
        /\ input.error.name = "Error" => output.status = 500

\* C24: the GET endpoints are read-only: no step of a handler changes the
\* streamers table.
C24_ReadOnly == [][streamersTable' = streamersTable]_vars

\* the client id or the client secret is missing or a placeholder
BadCredentials ==
    \/ input.TWITCH_CLIENT_ID \in {"", "<your_twitch_client_id>"}
    \/ input.TWITCH_CLIENT_SECRET \in {"", "<your_twitch_client_secret>"}

\* the roster source cannot be read: the database does not answer the query,
\* or the variable that lists the roster is not set
BadRoster ==
    IF variant = "config" THEN ~input.dbUp ELSE ~input.STREAMERS_TO_CHECK.set

\* C25: whenever the client id or secret is missing or a placeholder, or the
\* roster source is invalid or unavailable, configuration loading makes no
\* network call, never returns a configuration, and ends with a
\* ConfigurationError.
C25_FailFast ==
    (Config /\ (BadCredentials \/ BadRoster)) =>
        /\ output.queries = 0
        /\ ~output.returned
        /\ callPc \in {"done", "raised"} => output.error = "ConfigurationError"

\* C26: in the per-identity service a 401 answered to a request sent with an
\* older token never clears a newer token that another request has stored
\* meanwhile: the token slot is emptied only by a request that was sent with
\* the token the slot holds.
C26_StaleRejectionKeepsNewerToken ==
    [][(variant = "perIdentity" /\ accessToken # Null /\ accessToken' = Null) =>
          \E p \in Pos : /\ task[p].pc = "req"
                         /\ task'[p] # task[p]
                         /\ task[p].headers = accessToken]_vars

\* the handles of list l as the upstream spells them
Lowered(l) == {toLowerCase(l[k]) : k \in 1..Len(l)}

\* C27: a cached result is always one produced by a fetch for exactly the
\* list asked for: two different lists never map to the same cache key, so a
\* call that returns at once returns records of its own list only, and no
\* list maps to the key of the token.
C27_KeysTellListsApart ==
    /\ [](Caching =>
            /\ \A l \in Underscored \ {logins} : cacheKey(KeyPrefix, l) # ResultKey
            /\ ResultKey # TokenKey)
    /\ [][(CachingCallStarts /\ callPc' = "done") =>
             \A k \in 1..Len(results') : results'[k].login \in Lowered(logins')]_vars

\* the result for `logins` is written to the cache in this step
ResultStored ==
    /\ Caching
    /\ ResultKey \in DOMAIN cache'
    /\ (ResultKey \notin DOMAIN cache \/ cache'[ResultKey] # cache[ResultKey])

\* a request of the running fetch has failed: a GET of the batch of the bulk
\* service, or a lookup of the Kick service for a channel that exists
RequestFailed ==
    IF variant = "kick"
    THEN \E p \in 1..Len(logins) :
            /\ toLowerCase(logins[p]) \notin absent
            /\ "failed" \in {task[p].uRes, task[p].sRes}
    ELSE callPc = "raised" \/ "ok" \notin {bulk.users, bulk.streams}

\* C28: every list stored in the result cache comes from a fetch in which no
\* upstream request failed.
C28_StoredAfterCleanFetch == [][ResultStored => ~RequestFailed]_vars

\* the stream-status lookup for the identity of record r was answered, and
\* the answer held no stream
ReportedOffline(r) ==
    \E p \in 1..Len(logins) :
        /\ toLowerCase(logins[p]) = r.login
        /\ task[p].sRes = "offline"

\* C29: a record has isLive = false only when the stream-status lookup of its
\* identity completed successfully and reported no stream; a lookup that
\* failed never yields a record marked offline.
C29_OfflineOnlyWhenReported ==
    /\ variant = "perIdentity" =>
          \A p \in 1..Len(logins) :
              (Len(task[p].value) = 1 /\ ~task[p].value[1].isLive) =>
                  task[p].sRes = "offline"
    /\ (variant = "kick" /\ callPc = "done") =>
          \A k \in 1..Len(results) : ~results[k].isLive => ReportedOffline(results[k])

\* the viewers of the records of liveStreamersData, none as 0
LiveDataViewers ==
    [k \in 1..Len(output.liveStreamersData) |->
        OrZero(output.liveStreamersData[k].viewers)]

\* C30 as stated: liveStreamers equals the length of liveStreamersData,
\* totalLiveViewers equals the sum of the viewers of the records of
\* liveStreamersData, and liveStreamers is at most totalStreamers.
C30_LiveCountIsListLength ==
    Summarized =>
        /\ output.liveStreamers = Len(output.liveStreamersData)
        /\ output.totalLiveViewers = sum(LiveDataViewers)
        /\ output.liveStreamers <= output.totalStreamers

\* C30, amended: liveStreamersData is never longer than liveStreamers, and
\* has that length when every live record carries a viewer count (always, in
\* the earlier class); totalLiveViewers equals the sum of the viewers of the
\* records of liveStreamersData, and liveStreamers is at most totalStreamers.
C30_LiveCountBoundsListLength ==
    Summarized =>
        /\ Len(output.liveStreamersData) <= output.liveStreamers
        /\ (variant = "statsLegacy" \/ \A k \in LivePositions : input[k].viewers # Null)
              => output.liveStreamers = Len(output.liveStreamersData)
        /\ output.totalLiveViewers = sum(LiveDataViewers)
        /\ output.liveStreamers <= output.totalStreamers

\* C30 witness: the later class summarized two live records, one without a
\* viewer count and one with 50 viewers: two live, one listed, 50 viewers
C30_Witness ==
    /\ variant = "stats" /\ callPc = "done"
    /\ Len(input) = 2
    /\ input[1].isLive /\ input[1].viewers = Null
    /\ input[2].isLive /\ input[2].viewers = 50
    /\ output.liveStreamers = 2
    /\ Len(output.liveStreamersData) = 1
    /\ output.totalLiveViewers = 50

====
